---- MODULE Spec2Model ----
(***************************************************************************)
(* Guard-X backend: the Fleet Recovery Controller (DroneFleetManager) and  *)
(* the Signal-Integrity Controller (AntiJammingSystem) as one state        *)
(* machine.  Tasks are asyncio coroutines: a task runs without             *)
(* interruption until it suspends (asyncio.sleep, or a subscriber that     *)
(* itself awaits), so every action below is one such uninterrupted run.    *)
(*                                                                         *)
(* Units of measure.  Battery is held in hundredths of a percent (15% is   *)
(* 1500), so that the journey's decrement 0.5 * (1 + step/10) is the       *)
(* integer 5 * (10 + step).  lat, lon are offsets from the home base       *)
(* (28.7041, 77.1025) in units of 0.00001 degree, the step of the position *)
(* updater; the starting offsets are chosen so that the ten interpolation  *)
(* steps of one journey divide exactly.  Scores and the measurements they  *)
(* are computed from are held in thousandths (79.999 is 79999).            *)
(***************************************************************************)
EXTENDS Bags, FiniteSets, Integers, Sequences, TLC

VARIABLES
    drones,       \* self.drones: drone_id -> record
    monitoring,   \* self.monitoring
    callbacks,    \* self.alert_callbacks: the behaviour of each subscriber, in registration order
    mon,          \* the battery-monitor task: where it is, and its locals while suspended
    cycles,       \* number of battery-monitor cycles started
    journeys,     \* bag of simulate_return_journey tasks in flight
    flows,        \* bag of emergency_rth coroutines handed to asyncio.gather, not yet run
    parked,       \* bag of tasks suspended inside notify_operators (other than the monitor)
    alerts,       \* drone_id -> alert type -> number of notify_operators calls
    delivered,    \* subscriber -> drone_id -> alert type -> number of invocations
    manual_call,  \* the last manual_rth call: its drone_id and what it returned
    nManual,      \* number of manual_rth commands issued
    nBulk,        \* number of emergency_rth_all commands issued
    dispatch_log, \* the subscribers invoked by the latest notify_operators call, in order
    tasks,        \* self._tasks: the names of the loop tasks of the run in progress
    loops,        \* loop name -> number of tasks running that loop
    nStart,       \* number of start_monitoring calls
    position_updates,   \* number of passes of update_drone_positions
    severities,         \* alert type -> the severity of the latest alert_data of that type
    logs_dir,           \* the directory "logs" of the working directory, as the file system has it
    emergency_logs,     \* the emergency_log files written, in order
    procedures,         \* drone_id -> number of emergency_landing_procedures runs
    is_monitoring,      \* AntiJammingSystem.is_monitoring
    jamming_detected,   \* AntiJammingSystem.jamming_detected: the active flag
    current_channel,    \* AntiJammingSystem.current_channel
    jam_callbacks,      \* AntiJammingSystem.alert_callbacks: the behaviour of each subscriber
    jam_loops,          \* monitor name -> number of tasks running that monitor
    handlers,           \* bag of handle_potential_jamming calls suspended in an await
    jamming_events,     \* every jamming_event created so far, in order of creation
    jam_log,            \* <<subscriber, event>> for every callback invocation, in order
    evidence,           \* the evidence files written, in order: the snapshot each holds
    nBreach,            \* number of handle_potential_jamming calls
    nJamStart,          \* number of AntiJammingSystem.start_monitoring calls
    signal_strength_history,  \* AntiJammingSystem.signal_strength_history
    network_health,     \* AntiJammingSystem.network_health
    frequency_hopping,  \* the events enable_frequency_hopping was called for
    nSamples,           \* number of readings monitor_signal_strength has taken since Init
    stalled,            \* the monitor whose synchronous probe call has not returned
    severity_call       \* the latest direct call of calculate_jamming_severity

fleetVars == <<drones, monitoring, callbacks, mon, cycles, journeys, flows, parked,
               alerts, delivered, manual_call, nManual, nBulk, dispatch_log,
               tasks, loops, nStart, position_updates, severities,
               logs_dir, emergency_logs, procedures>>

(* what emergency_landing_procedures reads and writes *)
landingVars == <<logs_dir, emergency_logs, procedures>>

(* what the probes of the monitors read and write *)
probeVars == <<signal_strength_history, network_health, nSamples, stalled>>

jamVars == <<is_monitoring, jamming_detected, current_channel, jam_callbacks,
             jam_loops, handlers, jamming_events, jam_log, evidence, nBreach,
             nJamStart, frequency_hopping, probeVars>>

vars == <<fleetVars, jamVars, severity_call>>

----------------------------------------------------------------------------
(* Bounds of the model *)

MaxCycles == 2
MaxCommands == 1
MaxStarts == 2
MaxBreaches == 3
MaxSamples == 4

----------------------------------------------------------------------------
(* Program constants *)

Scale == 100
rth_threshold == 20 * Scale
emergency_rth_threshold == 10 * Scale
steps == 10
home_base == [lat |-> 0, lon |-> 0]
FarOffset == 1562500

DroneIds == <<"GUARD-01", "GUARD-02">>
Fleet == {DroneIds[i] : i \in 1..Len(DroneIds)}
UnknownId == "GUARD-99"

(* the loop tasks start_monitoring creates, lines 29-33 *)
LoopNames == <<"battery-monitor", "health-monitor", "position-updater">>
LoopSet == {LoopNames[i] : i \in 1..Len(LoopNames)}

AlertTypes == {"auto_rth", "emergency_rth", "drone_landed"}
SubscriberKinds == {"returns", "raises", "awaits"}

Max(a, b) == IF a >= b THEN a ELSE b
Min(a, b) == IF a <= b THEN a ELSE b

----------------------------------------------------------------------------
(* Unit records as the fleet configuration supplies them *)

(* position_valid: lat and lon hold numbers (what float() accepts, lines    *)
(* 214-215); add_drone stores whatever record it is given                   *)
ActiveDrone(lat, lon, alt, battery) ==
    [status |-> "active", battery |-> battery, returning_home |-> FALSE,
     rth_reason |-> "none", emergency_mode |-> FALSE,
     lat |-> lat, lon |-> lon, alt |-> alt, position_valid |-> TRUE]

(* a unit added with lat = None *)
NoPositionDrone(alt, battery) ==
    [ActiveDrone(0, 0, alt, battery) EXCEPT !.position_valid = FALSE]

LandedDrone(battery) ==
    [status |-> "landed", battery |-> battery, returning_home |-> FALSE,
     rth_reason |-> "none", emergency_mode |-> FALSE,
     lat |-> home_base.lat, lon |-> home_base.lon, alt |-> 0,
     position_valid |-> TRUE]

(* Fleets and subscriber lists the model starts from.  The first unit is    *)
(* on the ground, charging; the second is in flight, at the home base or   *)
(* away from it, with a battery at, below or just above a threshold.       *)
Scenarios ==
    { [fleet |-> <<LandedDrone(99 * Scale),
                   ActiveDrone(FarOffset, -FarOffset, FarOffset, 15 * Scale)>>,
       callbacks |-> <<"returns">>],
      [fleet |-> <<LandedDrone(99 * Scale),
                   ActiveDrone(0, 0, FarOffset, 5 * Scale)>>,
       callbacks |-> <<"raises", "returns">>],
      [fleet |-> <<LandedDrone(99 * Scale),
                   ActiveDrone(FarOffset, FarOffset, FarOffset, 20 * Scale + Scale \div 2)>>,
       callbacks |-> <<"returns">>],
      [fleet |-> <<LandedDrone(100 * Scale),
                   ActiveDrone(-FarOffset, 0, FarOffset, 10 * Scale)>>,
       callbacks |-> <<"returns", "raises">>] }

(* the end-to-end scenario (battery 15) and the unit at the home base with *)
(* a subscriber that raises                                                *)
FairScenarios ==
    { [fleet |-> <<LandedDrone(99 * Scale),
                   ActiveDrone(FarOffset, -FarOffset, FarOffset, 15 * Scale)>>,
       callbacks |-> <<"returns">>],
      [fleet |-> <<LandedDrone(99 * Scale),
                   ActiveDrone(0, 0, FarOffset, 5 * Scale)>>,
       callbacks |-> <<"raises", "returns">>] }

(* two units in flight, the first added without a position, and a         *)
(* subscriber that raises                                                  *)
BulkScenarios ==
    { [fleet |-> <<NoPositionDrone(FarOffset, 50 * Scale),
                   ActiveDrone(FarOffset, -FarOffset, FarOffset, 50 * Scale)>>,
       callbacks |-> <<"raises", "returns">>],
      [fleet |-> <<ActiveDrone(0, 0, FarOffset, 15 * Scale),
                   NoPositionDrone(FarOffset, 15 * Scale)>>,
       callbacks |-> <<"returns">>] }

(* the same, with a subscriber that suspends while it handles an alert *)
SuspendingScenarios ==
    { [fleet |-> <<LandedDrone(99 * Scale),
                   ActiveDrone(FarOffset, -FarOffset, FarOffset, 15 * Scale)>>,
       callbacks |-> <<"awaits", "returns">>],
      [fleet |-> <<LandedDrone(100 * Scale),
                   ActiveDrone(0, 0, FarOffset, 5 * Scale)>>,
       callbacks |-> <<"returns", "awaits">>] }

----------------------------------------------------------------------------
(* The part of the state that the coroutines below read and write *)

World == [drones |-> drones, journeys |-> journeys, alerts |-> alerts,
          delivered |-> delivered, dispatch_log |-> dispatch_log,
          severities |-> severities]

(* the subscribers from..last in the order the for-loop of line 400 takes them *)
invoked(from, last) == [k \in 1..(last - from + 1) |-> from + k - 1]

(* notify_operators from subscriber `from` on: every subscriber is invoked  *)
(* in registration order; one that raises is caught; the task suspends in   *)
(* the first one that awaits.  next = 0 when the notification is complete,  *)
(* else the subscriber to go on with after resumption.                      *)
notify_from(w, alert, from) ==
    LET N == Len(callbacks)
        aw == {j \in from..N : callbacks[j] = "awaits"}
        last == IF aw = {} THEN N ELSE CHOOSE j \in aw : \A k \in aw : j <= k
        d == [i \in 1..N |->
                IF i >= from /\ i <= last
                THEN [w.delivered[i] EXCEPT ![alert.drone_id][alert.type] = @ + 1]
                ELSE w.delivered[i]]
    IN [w |-> [w EXCEPT !.delivered = d,
                        !.dispatch_log = @ \o invoked(from, last)],
        next |-> IF aw = {} THEN 0 ELSE last + 1]

notify_operators(w, alert) ==
    notify_from([w EXCEPT !.alerts[alert.drone_id][alert.type] = @ + 1,
                          !.dispatch_log = <<>>,
                          !.severities[alert.type] = alert.severity], alert, 1)

(* calculate_distance: zero exactly at the home base, positive elsewhere *)
Abs(x) == IF x >= 0 THEN x ELSE -x
calculate_distance(lat1, lon1, lat2, lon2) == Abs(lat2 - lat1) + Abs(lon2 - lon1)

(* lines 214-215: float() of a lat or lon that is not a number raises *)
calculate_return_path_raises(drone) == ~drone.position_valid

(* ETA in units in which the cruise speed is 1/10 *)
calculate_return_path(drone) ==
    LET distance == calculate_distance(drone.lat, drone.lon, home_base.lat, home_base.lon)
    IN [distance |-> distance, eta |-> distance * 10, emergency_speed |-> FALSE]

calculate_emergency_return(drone) ==
    LET return_info == calculate_return_path(drone)
    IN [return_info EXCEPT !.eta = (@ * 7) \div 10, !.emergency_speed = TRUE]

(* simulate_return_journey line 280: the cadence of the journey's steps *)
sleep_per_step(total_time) == IF total_time > 0 THEN "eta/steps" ELSE "default"

NewJourney(drone_id, return_info, emergency) ==
    SetToBag({[drone_id |-> drone_id, step |-> 0, emergency |-> emergency,
               sleep_per_step |-> sleep_per_step(return_info.eta)]})

send_rth_command(w, drone_id, return_info) ==
    [w EXCEPT !.journeys = @ (+) NewJourney(drone_id, return_info, FALSE)]

send_emergency_rth_command(w, drone_id, return_info) ==
    [w EXCEPT !.journeys = @ (+) NewJourney(drone_id, return_info, TRUE)]

auto_rth_update(drone) ==
    [drone EXCEPT !.returning_home = TRUE, !.rth_reason = "low_battery",
                  !.status = "returning"]

emergency_rth_update(drone) ==
    [drone EXCEPT !.returning_home = TRUE, !.rth_reason = "critical_battery",
                  !.emergency_mode = TRUE, !.status = "returning"]

(* an auto RTH announced as critical *)
auto_rth_alert_critical(drone_id) ==
    [type |-> "auto_rth", drone_id |-> drone_id, severity |-> "CRITICAL"]

(* lines 153-160 *)
auto_rth_alert(drone_id) ==
    [type |-> "auto_rth", drone_id |-> drone_id, severity |-> "MEDIUM"]

(* lines 192-199 *)
emergency_rth_alert(drone_id) ==
    [type |-> "emergency_rth", drone_id |-> drone_id, severity |-> "CRITICAL"]

(* lines 331-337: the landing notice has no severity *)
drone_landed_alert(drone_id) ==
    [type |-> "drone_landed", drone_id |-> drone_id, severity |-> "none"]

(* an exception of the path calculation is caught on line 164 (202): the   *)
(* record is already updated, no journey is created, nobody is notified     *)
auto_rth(w, drone_id) ==
    IF drone_id \notin DOMAIN w.drones THEN [w |-> w, next |-> 0] ELSE
    LET w1 == [w EXCEPT !.drones[drone_id] = auto_rth_update(@)]
    IN IF calculate_return_path_raises(w1.drones[drone_id]) THEN [w |-> w1, next |-> 0] ELSE
    LET return_info == calculate_return_path(w1.drones[drone_id])
        w2 == send_rth_command(w1, drone_id, return_info)
    IN notify_operators(w2, auto_rth_alert(drone_id))

(* an emergency_rth whose path calculation fails whenever that of any unit *)
(* of the fleet does                                                       *)
emergency_rth_shared_failure(w, drone_id) ==
    IF drone_id \notin DOMAIN w.drones THEN [w |-> w, next |-> 0] ELSE
    LET w1 == [w EXCEPT !.drones[drone_id] = emergency_rth_update(@)]
    IN IF \E id \in DOMAIN w1.drones : calculate_return_path_raises(w1.drones[id])
       THEN [w |-> w1, next |-> 0] ELSE
    LET return_info == calculate_emergency_return(w1.drones[drone_id])
        w2 == send_emergency_rth_command(w1, drone_id, return_info)
    IN notify_operators(w2, emergency_rth_alert(drone_id))

emergency_rth(w, drone_id) ==
    IF drone_id \notin DOMAIN w.drones THEN [w |-> w, next |-> 0] ELSE
    LET w1 == [w EXCEPT !.drones[drone_id] = emergency_rth_update(@)]
    IN IF calculate_return_path_raises(w1.drones[drone_id]) THEN [w |-> w1, next |-> 0] ELSE
    LET return_info == calculate_emergency_return(w1.drones[drone_id])
        w2 == send_emergency_rth_command(w1, drone_id, return_info)
    IN notify_operators(w2, emergency_rth_alert(drone_id))

----------------------------------------------------------------------------
(* monitor_battery_levels *)

(* line 70 *)
drain(battery) == Max(0, battery - (Scale \div 2))

charge_unclamped(battery) == battery + 2 * Scale

(* line 75 *)
charge(battery) == Min(100 * Scale, battery + 2 * Scale)

(* line 57: the units the RTH branches and the drain apply to *)
is_active_or_returning(status) == status \in {"active", "returning"}

is_active(status) == status = "active"

rth_branch_auto_first(battery, returning_home) ==
    IF battery <= rth_threshold /\ ~returning_home THEN "auto_rth"
    ELSE IF battery <= emergency_rth_threshold THEN "emergency_rth"
    ELSE "none"

rth_branch_strict(battery, returning_home) ==
    IF battery <= emergency_rth_threshold THEN "emergency_rth"
    ELSE IF battery < rth_threshold /\ ~returning_home THEN "auto_rth"
    ELSE "none"

(* lines 59-65: which RTH the monitor triggers for an active unit *)
rth_branch(battery, returning_home) ==
    IF battery <= emergency_rth_threshold THEN "emergency_rth"
    ELSE IF battery <= rth_threshold /\ ~returning_home THEN "auto_rth"
    ELSE "none"

(* lines 67-70: the drain that follows the two RTH branches; status and     *)
(* battery are the values read before the branches, the record is live      *)
after_rth(w, drone_id, status, battery) ==
    IF status = "active" /\ ~w.drones[drone_id].returning_home
    THEN [w EXCEPT !.drones[drone_id].battery = drain(battery)]
    ELSE w

(* the monitor task: asleep between two cycles, or suspended in a           *)
(* subscriber; i, status and battery are the locals of its for-loop, kept   *)
(* only while it is suspended (the next iteration overwrites them before    *)
(* it reads them)                                                           *)
MonTask(pc, i, status, battery, alert, next) ==
    [pc |-> pc, i |-> i, status |-> status, battery |-> battery,
     alert |-> alert, next |-> next]

RECURSIVE monitor_loop(_, _)
RECURSIVE monitor_resume(_, _, _, _, _)

(* the for-loop from the i-th unit of the snapshot on, up to the sleep or  *)
(* up to a suspension inside a subscriber                                  *)
monitor_loop(w, i) ==
    IF i > Len(DroneIds) THEN [w |-> w, mon |-> MonTask("sleep", 0, "none", 0, "none", 0)]
    ELSE
      LET drone_id == DroneIds[i]
          drone == w.drones[drone_id]
          status == drone.status
          battery == drone.battery
          branch == rth_branch(battery, drone.returning_home)
      IN IF is_active(status)
         THEN IF branch = "emergency_rth"
              THEN monitor_resume(emergency_rth(w, drone_id), i, status, battery, branch)
              ELSE IF branch = "auto_rth"
              THEN monitor_resume(auto_rth(w, drone_id), i, status, battery, branch)
              ELSE monitor_loop(after_rth(w, drone_id, status, battery), i + 1)
         ELSE IF status = "landed"
         THEN IF battery < 100 * Scale
              THEN monitor_loop([w EXCEPT !.drones[drone_id].battery = charge(battery)],
                                i + 1)
              ELSE monitor_loop(w, i + 1)
         ELSE monitor_loop(w, i + 1)

(* r is the outcome of a notification made for the i-th unit *)
monitor_resume(r, i, status, battery, alert) ==
    IF r.next # 0
    THEN [w |-> r.w, mon |-> MonTask("notify", i, status, battery, alert, r.next)]
    ELSE monitor_loop(after_rth(r.w, DroneIds[i], status, battery), i + 1)

----------------------------------------------------------------------------
(* simulate_return_journey and land_drone *)

journey_battery(battery, step) == Max(0, battery - (((Scale \div 2) * (steps + step)) \div steps))

journey_update(drone, step) ==
    [drone EXCEPT
       !.lat = @ + ((home_base.lat - @) * step) \div steps,
       !.lon = @ + ((home_base.lon - @) * step) \div steps,
       !.alt = Max(0, (@ * (steps - step)) \div steps),
       !.battery = journey_battery(@, step)]

land_drone_keeps_emergency_mode(drone) ==
    [drone EXCEPT !.status = "landed", !.returning_home = FALSE,
                  !.lat = home_base.lat, !.lon = home_base.lon, !.alt = 0]

land_drone_keeps_status(drone) ==
    [drone EXCEPT !.returning_home = FALSE, !.emergency_mode = FALSE,
                  !.lat = home_base.lat, !.lon = home_base.lon, !.alt = 0]

(* a landing that leaves returning_home as it is *)
land_drone_keeps_returning_home(drone) ==
    [drone EXCEPT !.status = "landed", !.emergency_mode = FALSE,
                  !.lat = home_base.lat, !.lon = home_base.lon, !.alt = 0]

land_drone_update(drone) ==
    [drone EXCEPT !.status = "landed", !.returning_home = FALSE,
                  !.emergency_mode = FALSE,
                  !.lat = home_base.lat, !.lon = home_base.lon, !.alt = 0]

land_drone(w, drone_id) ==
    LET w1 == [w EXCEPT !.drones[drone_id] = land_drone_update(@)]
    IN notify_operators(w1, drone_landed_alert(drone_id))

(* the states of the directory "logs" that matter to lines 352 and 370:    *)
(* it does not exist, it exists, it exists and no file can be created in   *)
(* it, it does not exist and cannot be created                             *)
LogsDirStates == {"absent", "present", "readonly", "blocked"}

(* line 352: os.makedirs(logs_dir, exist_ok=True) *)
makedirs_raises(dir) == dir = "blocked"

makedirs(dir) == IF dir = "absent" THEN "present" ELSE dir

(* line 370: open(filename, 'w') *)
open_raises(dir) == dir \in {"readonly", "blocked"}

(* lines 357-366, without the timestamp and the battery level *)
emergency_log(drone_id, drone) ==
    [drone_id |-> drone_id, event |-> "emergency_landing",
     location |-> [lat |-> drone.lat, lon |-> drone.lon]]

(* lines 341-373: both exceptions are caught and printed; the unit's       *)
(* record is read, never written                                           *)
emergency_landing_procedures(fs, w, drone_id) ==
    IF drone_id \notin DOMAIN w.drones THEN fs ELSE
    LET dir == IF makedirs_raises(fs.logs_dir) THEN fs.logs_dir ELSE makedirs(fs.logs_dir)
    IN [logs_dir |-> dir,
        emergency_logs |-> IF open_raises(dir) THEN fs.emergency_logs
                           ELSE Append(fs.emergency_logs,
                                       emergency_log(drone_id, w.drones[drone_id])),
        procedures |-> [fs.procedures EXCEPT ![drone_id] = @ + 1]]

(* a journey that ends with the procedure whatever its kind *)
after_landing_always(fs, w, drone_id, emergency) ==
    emergency_landing_procedures(fs, w, drone_id)

(* what follows land_drone: nothing in simulate_return_journey (line 304), *)
(* the procedure in simulate_emergency_return_journey (lines 309-310)      *)
after_landing(fs, w, drone_id, emergency) ==
    IF emergency THEN emergency_landing_procedures(fs, w, drone_id) ELSE fs

manual_rth_always_true(w, drone_id) ==
    LET r == auto_rth(w, drone_id)
    IN [w |-> r.w, next |-> r.next, returned |-> "true"]

(* manual_rth: what it does to the fleet and what it returns *)
manual_rth(w, drone_id) ==
    IF drone_id \in DOMAIN w.drones
    THEN LET r == auto_rth(w, drone_id)
         IN [w |-> r.w, next |-> r.next, returned |-> "true"]
    ELSE [w |-> w, next |-> 0, returned |-> "false"]

----------------------------------------------------------------------------
(* AntiJammingSystem *)

Milli == 1000
signal_drop_threshold == 30 * Milli
interference_threshold == 800
packet_loss_threshold == 15 * Milli
backup_channels == <<"wifi", "cellular", "ethernet">>

(* the monitor tasks start_monitoring creates, lines 33-36 *)
JamMonitors == {"signal", "network", "interference", "gps"}

Severities == {"LOW", "MEDIUM", "HIGH", "CRITICAL"}

(* details.get(key, default) *)
get(details, key, default) == IF key \in DOMAIN details THEN details[key] ELSE default

NoDetails == [test_mode |-> TRUE]

severity_of_strict(score) ==
    IF score > 80 * Milli THEN "CRITICAL"
    ELSE IF score > 60 * Milli THEN "HIGH"
    ELSE IF score > 40 * Milli THEN "MEDIUM"
    ELSE "LOW"

(* lines 285-292 *)
severity_of(score) ==
    IF score >= 80 * Milli THEN "CRITICAL"
    ELSE IF score >= 60 * Milli THEN "HIGH"
    ELSE IF score >= 40 * Milli THEN "MEDIUM"
    ELSE "LOW"

network_score_doubled(packet_loss) == packet_loss * 2

(* line 278 *)
network_score(packet_loss) == packet_loss \div 5

(* lines 276-283: the score of the type, 50 for a type that has none *)
severity_score(jamming_type, details) ==
    LET severity_scores ==
          [signal_drop |-> get(details, "drop_percent", 0) \div 10,
           network |-> network_score(get(details, "packet_loss", 0)),
           rf_interference |-> get(details, "interference_level", 0) * 100,
           gps |-> IF ~get(details, "available", TRUE) THEN 80 * Milli ELSE 20 * Milli]
    IN IF jamming_type \in DOMAIN severity_scores
       THEN severity_scores[jamming_type]
       ELSE 50 * Milli

calculate_jamming_severity(jamming_type, details) ==
    severity_of(severity_score(jamming_type, details))

----------------------------------------------------------------------------
TypeOK ==
    /\ monitoring \in BOOLEAN
    /\ \A i \in 1..Len(callbacks) : callbacks[i] \in SubscriberKinds
    /\ cycles \in 0..MaxCycles
    /\ nManual + nBulk \in 0..MaxCommands
    /\ manual_call.returned \in {"none", "pending", "true", "false"}
    /\ \A id \in Fleet : drones[id].status \in {"active", "returning", "landed"}
    /\ nStart \in 0..MaxStarts
    /\ position_updates \in 0..MaxCycles
    /\ is_monitoring \in BOOLEAN
    /\ jamming_detected \in BOOLEAN
    /\ nBreach \in 0..MaxBreaches
    /\ logs_dir \in LogsDirStates

(* line 16: the network_health of a system whose network monitor has not  *)
(* completed a pass                                                        *)
NoHealth == [checked |-> FALSE, packet_loss |-> 0, connected_count |-> 0]

(* AntiJammingSystem.__init__, and the subscribers registered at import *)
InitJam(subscribers) ==
    /\ is_monitoring = FALSE
    /\ jamming_detected = FALSE
    /\ current_channel = "wifi"
    /\ jam_callbacks \in subscribers
    /\ jam_loops = [m \in JamMonitors |-> 0]
    /\ handlers = EmptyBag
    /\ jamming_events = <<>>
    /\ jam_log = <<>>
    /\ evidence = <<>>
    /\ nBreach = 0
    /\ nJamStart = 0
    /\ signal_strength_history = <<>>
    /\ network_health = NoHealth
    /\ frequency_hopping = {}
    /\ nSamples = 0
    /\ stalled = "none"

NoSeverityCall == [jamming_type |-> "none", details |-> NoDetails, severity |-> "none"]

InitFleetOn(scenarios, dirs) ==
    /\ logs_dir \in dirs
    /\ \E sc \in scenarios :
          /\ drones = [id \in Fleet |->
                         sc.fleet[CHOOSE i \in 1..Len(DroneIds) : DroneIds[i] = id]]
          /\ callbacks = sc.callbacks
    /\ monitoring = FALSE
    /\ mon = MonTask("off", 0, "none", 0, "none", 0)
    /\ cycles = 0
    /\ journeys = EmptyBag
    /\ flows = EmptyBag
    /\ parked = EmptyBag
    /\ alerts = [id \in Fleet |-> [t \in AlertTypes |-> 0]]
    /\ delivered = [i \in 1..Len(callbacks) |-> [id \in Fleet |-> [t \in AlertTypes |-> 0]]]
    /\ manual_call = [drone_id |-> "none", returned |-> "none"]
    /\ nManual = 0
    /\ nBulk = 0
    /\ dispatch_log = <<>>
    /\ tasks = <<>>
    /\ loops = [n \in LoopSet |-> 0]
    /\ nStart = 0
    /\ position_updates = 0
    /\ severities = [t \in AlertTypes |-> "none"]
    /\ emergency_logs = <<>>
    /\ procedures = [id \in Fleet |-> 0]

(* a working directory without a "logs" directory, as the repository has it *)
InitFleet(scenarios) == InitFleetOn(scenarios, {"absent"})

(* the program as app.py sets it up: one jamming subscriber, which returns *)
InitFrom(scenarios) ==
    /\ InitFleet(scenarios)
    /\ InitJam({<<"returns">>})
    /\ severity_call = NoSeverityCall

(* The coroutines handed to asyncio.gather are ready tasks: they run in   *)
(* the next pass of the event loop, before any task that is woken by a    *)
(* timer in that pass.  A journey of the same unit is either created in   *)
(* the same pass (and queued behind them) or asleep.                      *)
FlowPending(drone_id) == BagIn([drone_id |-> drone_id], flows)

SetWorld(w) ==
    /\ drones' = w.drones
    /\ journeys' = w.journeys
    /\ alerts' = w.alerts
    /\ delivered' = w.delivered
    /\ dispatch_log' = w.dispatch_log
    /\ severities' = w.severities

notFleet == <<jamVars, severity_call>>

Logs == [logs_dir |-> logs_dir, emergency_logs |-> emergency_logs,
         procedures |-> procedures]

SetLogs(fs) ==
    /\ logs_dir' = fs.logs_dir
    /\ emergency_logs' = fs.emergency_logs
    /\ procedures' = fs.procedures

Park(kind, drone_id, alert, next, emergency) ==
    SetToBag({[kind |-> kind, drone_id |-> drone_id, alert |-> alert,
               next |-> next, emergency |-> emergency]})

Run == [monitoring |-> monitoring, tasks |-> tasks, loops |-> loops]

SetRun(r) ==
    /\ monitoring' = r.monitoring
    /\ tasks' = r.tasks
    /\ loops' = r.loops

(* start_monitoring with its test of the flag inside the try block: the    *)
(* finally clause runs on the early return too                             *)
start_monitoring_guard_in_try(r) ==
    IF r.monitoring
    THEN [r EXCEPT !.monitoring = FALSE, !.tasks = <<>>]
    ELSE [monitoring |-> TRUE, tasks |-> LoopNames,
          loops |-> [n \in LoopSet |-> r.loops[n] + 1]]

(* start_monitoring up to its await of the gather (lines 20-36): the early *)
(* return of line 22 is before the try, so no finally clause runs for it   *)
start_monitoring(r) ==
    IF r.monitoring
    THEN r
    ELSE [monitoring |-> TRUE, tasks |-> LoopNames,
          loops |-> [n \in LoopSet |-> r.loops[n] + 1]]

(* start_monitoring, first call: the flag is set and the loops are created *)
StartMonitoring ==
    /\ ~monitoring
    /\ mon.pc = "off"
    /\ SetRun(start_monitoring(Run))
    /\ mon' = [mon EXCEPT !.pc = "sleep"]
    /\ nStart' = nStart + 1
    /\ UNCHANGED <<drones, callbacks, cycles, journeys, flows, parked, alerts,
                   delivered, manual_call, nManual, nBulk, dispatch_log, severities,
                   position_updates, landingVars, notFleet>>

(* lines 37-46: the CancelledError reaches start_monitoring at its await   *)
(* of the gather; the loop tasks of self._tasks are cancelled, the finally *)
(* clause clears the flag and the list                                     *)
cancel_run(r) ==
    [monitoring |-> FALSE, tasks |-> <<>>,
     loops |-> [n \in LoopSet |-> Max(0, r.loops[n] - 1)]]

(* the task that runs start_monitoring is cancelled while its loops are at *)
(* a suspension point: the battery monitor gets the CancelledError there   *)
(* and ends. The tasks send_rth_command created (lines 251, 262) are in no *)
(* list and are left as they are.                                          *)
CancelMonitoring ==
    /\ monitoring
    /\ mon.pc \in {"sleep", "notify"}
    /\ SetRun(cancel_run(Run))
    /\ mon' = MonTask("cancelled", 0, "none", 0, "none", 0)
    /\ UNCHANGED <<drones, callbacks, cycles, journeys, flows, parked, alerts,
                   delivered, manual_call, nManual, nBulk, dispatch_log, severities, nStart,
                   position_updates, landingVars, notFleet>>

(* start_monitoring called while a run is in progress *)
StartMonitoringAgain ==
    /\ monitoring
    /\ nStart < MaxStarts
    /\ SetRun(start_monitoring(Run))
    /\ nStart' = nStart + 1
    /\ UNCHANGED <<drones, callbacks, mon, cycles, journeys, flows, parked, alerts,
                   delivered, manual_call, nManual, nBulk, dispatch_log, severities,
                   position_updates, landingVars, notFleet>>

(* one pass of monitor_drone_health: it reads the records and changes nothing *)
HealthCycle ==
    /\ monitoring
    /\ loops["health-monitor"] > 0
    /\ UNCHANGED vars

(* an updater that moves every unit that has a position *)
update_position_any_status(drone) ==
    IF drone.position_valid
    THEN [drone EXCEPT !.lat = @ + 1, !.lon = @ - 1]
    ELSE drone

(* lines 111-118, with the try of line 110 around them *)
update_position(drone) ==
    IF drone.status = "active" /\ ~drone.returning_home /\ drone.position_valid
    THEN [drone EXCEPT !.lat = @ + 1, !.lon = @ - 1]
    ELSE drone

(* one pass of update_drone_positions *)
PositionCycle ==
    /\ monitoring
    /\ loops["position-updater"] > 0
    /\ position_updates < MaxCycles
    /\ drones' = [id \in Fleet |-> update_position(drones[id])]
    /\ position_updates' = position_updates + 1
    /\ UNCHANGED <<monitoring, callbacks, mon, cycles, journeys, flows, parked, alerts,
                   delivered, manual_call, nManual, nBulk, dispatch_log, severities,
                   tasks, loops, nStart, landingVars, notFleet>>

(* one pass of the while-loop of monitor_battery_levels, up to its sleep or *)
(* to a suspension in a subscriber                                          *)
MonitorCycle ==
    /\ monitoring
    /\ mon.pc = "sleep"
    /\ cycles < MaxCycles
    /\ LET r == monitor_loop(World, 1)
       IN SetWorld(r.w) /\ mon' = r.mon
    /\ cycles' = cycles + 1
    /\ UNCHANGED <<monitoring, callbacks, flows, parked, manual_call, nManual, nBulk,
                   tasks, loops, nStart, position_updates, landingVars, notFleet>>

(* the monitor resumes inside notify_operators and goes on with its cycle *)
MonitorResume ==
    /\ mon.pc = "notify"
    /\ LET id == DroneIds[mon.i]
           n == notify_from(World, [type |-> mon.alert, drone_id |-> id], mon.next)
           r == monitor_resume(n, mon.i, mon.status, mon.battery, mon.alert)
       IN SetWorld(r.w) /\ mon' = r.mon
    /\ UNCHANGED <<monitoring, callbacks, cycles, flows, parked, manual_call, nManual, nBulk,
                   tasks, loops, nStart, position_updates, landingVars, notFleet>>

(* manual_rth, awaited by the /api/drones/{drone_id}/rth handler *)
ManualRTH(drone_id) ==
    /\ nManual + nBulk < MaxCommands
    /\ nManual' = nManual + 1
    /\ LET r == manual_rth(World, drone_id)
       IN /\ SetWorld(r.w)
          /\ IF r.next = 0
             THEN /\ manual_call' = [drone_id |-> drone_id, returned |-> r.returned]
                  /\ parked' = parked
             ELSE /\ manual_call' = [drone_id |-> drone_id, returned |-> "pending"]
                  /\ parked' = parked (+) Park("manual", drone_id, "auto_rth", r.next, FALSE)
    /\ UNCHANGED <<monitoring, callbacks, mon, cycles, flows, nBulk,
                   tasks, loops, nStart, position_updates, landingVars, notFleet>>

(* emergency_rth_all up to its await: the active units are selected and one *)
(* emergency_rth coroutine per unit is handed to asyncio.gather             *)
EmergencyRthAll ==
    /\ nManual + nBulk < MaxCommands
    /\ nBulk' = nBulk + 1
    /\ LET active_drones == {id \in Fleet : drones[id].status = "active"}
       IN flows' = flows (+) SetToBag({[drone_id |-> id] : id \in active_drones})
    /\ UNCHANGED <<drones, monitoring, callbacks, mon, cycles, journeys, parked,
                   alerts, delivered, manual_call, nManual, dispatch_log, severities,
                   tasks, loops, nStart, position_updates, landingVars, notFleet>>

(* one of the gathered emergency_rth coroutines runs *)
EmergencyRthFlow(f) ==
    /\ BagIn(f, flows)
    /\ flows' = flows (-) SetToBag({f})
    /\ LET r == emergency_rth(World, f.drone_id)
       IN /\ SetWorld(r.w)
          /\ parked' = IF r.next = 0 THEN parked
                       ELSE parked (+) Park("flow", f.drone_id, "emergency_rth", r.next, TRUE)
    /\ UNCHANGED <<monitoring, callbacks, mon, cycles, manual_call, nManual, nBulk,
                   tasks, loops, nStart, position_updates, landingVars, notFleet>>

(* one iteration of the for-loop of simulate_return_journey *)
JourneyStep(j) ==
    /\ BagIn(j, journeys)
    /\ ~FlowPending(j.drone_id)
    /\ j.step <= steps
    /\ drones' = [drones EXCEPT ![j.drone_id] = journey_update(@, j.step)]
    /\ journeys' = (journeys (-) SetToBag({j})) (+) SetToBag({[j EXCEPT !.step = @ + 1]})
    /\ UNCHANGED <<monitoring, callbacks, mon, cycles, flows, parked, alerts,
                   delivered, manual_call, nManual, nBulk, dispatch_log, severities,
                   tasks, loops, nStart, position_updates, landingVars, notFleet>>

(* the journey is over: land_drone *)
JourneyLand(j) ==
    /\ BagIn(j, journeys)
    /\ ~FlowPending(j.drone_id)
    /\ j.step = steps + 1
    /\ LET r == land_drone([World EXCEPT !.journeys = @ (-) SetToBag({j})], j.drone_id)
       IN /\ SetWorld(r.w)
          /\ parked' = IF r.next = 0 THEN parked
                       ELSE parked (+) Park("land", j.drone_id, "drone_landed", r.next, j.emergency)
          /\ SetLogs(IF r.next = 0
                     THEN after_landing(Logs, r.w, j.drone_id, j.emergency)
                     ELSE Logs)
    /\ UNCHANGED <<monitoring, callbacks, mon, cycles, flows, manual_call, nManual, nBulk,
                   tasks, loops, nStart, position_updates, notFleet>>

(* a task suspended in a subscriber resumes and finishes its notification *)
ParkedResume(p) ==
    /\ BagIn(p, parked)
    /\ LET r == notify_from(World, [type |-> p.alert, drone_id |-> p.drone_id], p.next)
       IN /\ SetWorld(r.w)
          /\ parked' = IF r.next = 0 THEN parked (-) SetToBag({p})
                       ELSE (parked (-) SetToBag({p})) (+) SetToBag({[p EXCEPT !.next = r.next]})
          /\ manual_call' = IF r.next = 0 /\ p.kind = "manual"
                            THEN [manual_call EXCEPT !.returned = "true"]
                            ELSE manual_call
          /\ SetLogs(IF r.next = 0 /\ p.kind = "land"
                     THEN after_landing(Logs, r.w, p.drone_id, p.emergency)
                     ELSE Logs)
    /\ UNCHANGED <<monitoring, callbacks, mon, cycles, flows, nManual, nBulk,
                   tasks, loops, nStart, position_updates, notFleet>>

----------------------------------------------------------------------------
(* AntiJammingSystem: the monitors and handle_potential_jamming *)

Jam == [jamming_detected |-> jamming_detected, current_channel |-> current_channel,
        handlers |-> handlers, jamming_events |-> jamming_events,
        jam_log |-> jam_log, evidence |-> evidence,
        frequency_hopping |-> frequency_hopping, jam_loops |-> jam_loops,
        signal_strength_history |-> signal_strength_history,
        network_health |-> network_health]

SetJam(j) ==
    /\ jamming_detected' = j.jamming_detected
    /\ current_channel' = j.current_channel
    /\ handlers' = j.handlers
    /\ jamming_events' = j.jamming_events
    /\ jam_log' = j.jam_log
    /\ evidence' = j.evidence
    /\ frequency_hopping' = j.frequency_hopping
    /\ jam_loops' = j.jam_loops

(* a dispatch loop that ends at the first subscriber that raises *)
notify_jamming_until_error(subscribers, log, event) ==
    LET raising == {i \in 1..Len(subscribers) : subscribers[i] = "raises"}
        last == IF raising = {} THEN Len(subscribers)
                ELSE CHOOSE i \in raising : \A k \in raising : i <= k
    IN log \o [i \in 1..last |-> <<i, event>>]

(* lines 264-268: every subscriber is awaited in registration order, one   *)
(* that raises is caught                                                   *)
notify_jamming(subscribers, log, event) ==
    log \o [i \in 1..Len(subscribers) |-> <<i, event>>]

(* a test of line 247 that lets every breach in *)
jamming_suppressed_never(flag) == FALSE

(* line 247: a breach is dropped while the flag is set *)
jamming_suppressed(flag) == flag

(* a cooldown that leaves the flag as it is *)
end_cooldown_keeps_flag(flag) == flag

(* line 272 *)
end_cooldown(flag) == FALSE

(* the handlers of one monitor (or of the test endpoint) that are suspended *)
Suspended(source) ==
    LET mine == {h \in BagToSet(handlers) : h.source = source}
    IN BagCardinality([h \in mine |-> handlers[h]])

(* switch_to_backup_channel, line 325-326: the next channel to test after the k-th *)
next_backup(k, current) ==
    LET later == {i \in (k + 1)..Len(backup_channels) : backup_channels[i] # current}
    IN IF later = {} THEN 0 ELSE CHOOSE i \in later : \A i2 \in later : i <= i2

(* frequency hopping for a HIGH event only *)
hops_only_high(severity) == severity = "HIGH"

(* frequency hopping for every event but a LOW one *)
hops_unless_low(severity) == severity # "LOW"

(* line 310 *)
hops(severity) == severity \in {"HIGH", "CRITICAL"}

(* line 355: signal_strength_history[-20:] *)
last_readings(history) ==
    SubSeq(history, Max(1, Len(history) - 19), Len(history))

(* lines 353-362, without the host metrics *)
Snapshot(j, event) ==
    [event |-> event,
     signal_history |-> last_readings(j.signal_strength_history),
     network_health |-> j.network_health]

(* an exception that ends the loop it reaches *)
after_error_fatal(monitor_loops, source) ==
    IF source \in DOMAIN monitor_loops
    THEN [monitor_loops EXCEPT ![source] = @ - 1]
    ELSE monitor_loops

(* lines 70-72 and their like in the other monitors: what a pass raises is *)
(* caught inside the while loop, which goes on after a sleep               *)
after_error(monitor_loops, source) == monitor_loops

(* activate_countermeasures from line 310 on, then lines 264-271 of the    *)
(* handler: enable_frequency_hopping is called for a HIGH or CRITICAL      *)
(* event; store_jamming_evidence writes the file or raises, and what it    *)
(* raises leaves handle_potential_jamming and reaches the monitor that     *)
(* called it; else the subscribers are notified and the handler sleeps its *)
(* cooldown                                                                *)
store_and_notify(j, h, written) ==
    LET j1 == IF hops(j.jamming_events[h.event].severity)
              THEN [j EXCEPT !.frequency_hopping = @ \cup {h.event}]
              ELSE j
    IN IF ~written THEN [j1 EXCEPT !.jam_loops = after_error(@, h.source)]
       ELSE [j1 EXCEPT !.evidence = Append(@, Snapshot(j1, h.event)),
                       !.jam_log = notify_jamming(jam_callbacks, @, h.event),
                       !.handlers = @ (+) SetToBag({[h EXCEPT !.pc = "cooldown"]})]

Handler(source, event) ==
    [source |-> source, event |-> event, pc |-> "test_channel", k |-> 0, available |-> <<>>]

(* handle_potential_jamming up to its first suspension *)
handle_potential_jamming(j, source, jamming_type, details, written) ==
    IF jamming_suppressed(j.jamming_detected) THEN j ELSE
    LET jamming_event == [type |-> jamming_type, details |-> details,
                          severity |-> calculate_jamming_severity(jamming_type, details)]
        j1 == [j EXCEPT !.jamming_detected = TRUE,
                        !.jamming_events = Append(@, jamming_event)]
        h == Handler(source, Len(j1.jamming_events))
        k == next_backup(0, j.current_channel)
    IN IF jamming_type \in {"signal_drop", "network"} /\ k # 0
       THEN [j1 EXCEPT !.handlers = @ (+) SetToBag({[h EXCEPT !.k = k]})]
       ELSE store_and_notify(j1, h, written)

(* AntiJammingSystem.start_monitoring, as the task start_anti_jamming      *)
(* creates runs it up to its gather                                        *)
JamStart ==
    /\ nJamStart < MaxStarts
    /\ nJamStart' = nJamStart + 1
    /\ is_monitoring' = TRUE
    /\ jam_loops' = [m \in JamMonitors |-> jam_loops[m] + 1]
    /\ UNCHANGED <<fleetVars, severity_call, jamming_detected, current_channel,
                   jam_callbacks, handlers, jamming_events, jam_log, evidence, nBreach,
                   frequency_hopping, probeVars>>

(* a monitor task that is between two passes of its loop *)
Idle(monitor) == is_monitoring /\ jam_loops[monitor] > Suspended(monitor)

Breach(source, jamming_type, details) ==
    /\ nBreach < MaxBreaches
    /\ nBreach' = nBreach + 1
    /\ \E written \in BOOLEAN :
          SetJam(handle_potential_jamming(Jam, source, jamming_type, details, written))
    /\ UNCHANGED <<fleetVars, severity_call, is_monitoring, jam_callbacks,
                   nJamStart, probeVars>>

(* what analyze_signal_patterns can compute as signal_drop_percent *)
DropMeasurements == {30 * Milli, 600 * Milli}

(* one pass of monitor_signal_strength with at least ten readings *)
SignalProbe ==
    /\ Idle("signal")
    /\ \E signal_drop_percent \in DropMeasurements :
          IF signal_drop_percent > signal_drop_threshold
          THEN Breach("signal", "signal_drop", [drop_percent |-> signal_drop_percent])
          ELSE UNCHANGED vars

test_servers == 3

(* line 133 *)
packet_loss_of(connected_count) ==
    ((test_servers - connected_count) * 100 * Milli) \div test_servers

(* one pass of monitor_network_health *)
NetworkProbe ==
    /\ Idle("network")
    /\ \E connected_count \in 0..test_servers :
          LET packet_loss == packet_loss_of(connected_count)
          IN IF packet_loss > packet_loss_threshold
             THEN Breach("network", "network",
                         [packet_loss |-> packet_loss, threshold |-> packet_loss_threshold])
             ELSE UNCHANGED vars

(* what detect_rf_interference returns: 0.1, or min(variance / 100, 1.0) *)
InterferenceMeasurements == {100, 800, 1000}

(* one pass of monitor_interference, detect_rf_interference returning one *)
(* of the levels                                                           *)
InterferencePass(levels) ==
    /\ Idle("interference")
    /\ \E interference_level \in levels :
          IF interference_level > interference_threshold
          THEN Breach("interference", "rf_interference",
                      [interference_level |-> interference_level,
                       threshold |-> interference_threshold])
          ELSE UNCHANGED vars

InterferenceProbe == InterferencePass(InterferenceMeasurements)

(* lines 213-218 *)
check_gps_health == [available |-> TRUE, accuracy |-> 5 * Milli]

(* one pass of monitor_gps_jamming *)
GpsProbe ==
    /\ Idle("gps")
    /\ LET gps_status == check_gps_health
       IN IF ~gps_status.available \/ gps_status.accuracy > 50 * Milli
          THEN Breach("gps", "gps", gps_status)
          ELSE UNCHANGED vars

(* /api/security/test-jamming *)
TestJamming == Breach("test", "test", [test_mode |-> TRUE])

(* lines 338-343: after its sleep the test reports the channel reachable *)
test_channel_connectivity(channel) == TRUE

(* a switch that leaves no channel selected *)
first_available_unset(available) == "none"

(* a switch to the last channel that passed its test *)
last_available(available) == available[Len(available)]

(* line 331 *)
first_available(available) == available[1]

(* lines 330-336 *)
switch_channel(current, available) ==
    IF available # <<>> THEN first_available(available) ELSE current

(* test_channel_connectivity returns after its sleep: the loop of          *)
(* switch_to_backup_channel goes on, to the next test or to its end        *)
ChannelTested(h) ==
    /\ BagIn(h, handlers)
    /\ h.pc = "test_channel"
    /\ LET available == IF test_channel_connectivity(backup_channels[h.k])
                        THEN Append(h.available, backup_channels[h.k])
                        ELSE h.available
           k == next_backup(h.k, current_channel)
           j == [Jam EXCEPT !.handlers = @ (-) SetToBag({h})]
       IN IF k # 0
          THEN SetJam([j EXCEPT !.handlers = @ (+) SetToBag({[h EXCEPT !.k = k,
                                                       !.available = available]})])
          ELSE \E written \in BOOLEAN :
                  SetJam(store_and_notify([j EXCEPT !.current_channel =
                                                       switch_channel(@, available)],
                                          [h EXCEPT !.k = 0, !.available = <<>>], written))
    /\ UNCHANGED <<fleetVars, severity_call, is_monitoring, jam_callbacks,
                   nBreach, nJamStart, probeVars>>

(* the sleep of line 271 is over *)
CooldownExpires(h) ==
    /\ BagIn(h, handlers)
    /\ h.pc = "cooldown"
    /\ handlers' = handlers (-) SetToBag({h})
    /\ jamming_detected' = end_cooldown(jamming_detected)
    /\ UNCHANGED <<fleetVars, severity_call, is_monitoring, current_channel,
                   jam_callbacks, jam_loops, jamming_events, jam_log, evidence,
                   nBreach, nJamStart, frequency_hopping, probeVars>>

Init == InitFrom(Scenarios)

Next ==
    \/ StartMonitoring
    \/ MonitorCycle
    \/ \E id \in Fleet \cup {UnknownId} : ManualRTH(id)
    \/ EmergencyRthAll
    \/ \E f \in BagToSet(flows) : EmergencyRthFlow(f)
    \/ \E j \in BagToSet(journeys) : JourneyStep(j)
    \/ \E j \in BagToSet(journeys) : JourneyLand(j)

Spec == Init /\ [][Next]_vars

(* the same program with a subscriber that suspends: the tasks that notify *)
(* it are resumed later                                                    *)
InitSuspending == InitFrom(SuspendingScenarios)

NextSuspending ==
    \/ Next
    \/ MonitorResume
    \/ \E p \in BagToSet(parked) : ParkedResume(p)

SpecSuspending == InitSuspending /\ [][NextSuspending]_vars

(* the journey tasks, the gathered coroutines and the suspended tasks are  *)
(* asyncio tasks: the event loop runs each of them whenever it is ready    *)
FairSpec ==
    /\ InitFrom(FairScenarios)
    /\ [][Next]_vars
    /\ WF_vars(\E f \in BagToSet(flows) : EmergencyRthFlow(f))
    /\ WF_vars(\E j \in BagToSet(journeys) : JourneyStep(j))
    /\ WF_vars(\E j \in BagToSet(journeys) : JourneyLand(j))

(* the Fleet Recovery Controller's three loops, with start_monitoring      *)
(* called again while they run                                             *)
NextMonitoring ==
    \/ StartMonitoring
    \/ StartMonitoringAgain
    \/ MonitorCycle
    \/ HealthCycle
    \/ PositionCycle
    \/ \E j \in BagToSet(journeys) : JourneyStep(j)
    \/ \E j \in BagToSet(journeys) : JourneyLand(j)

MonitoringSpec == InitFrom(Scenarios) /\ [][NextMonitoring]_vars

(* emergency RTH for all units, on a fleet with several units in flight *)
NextBulk ==
    \/ StartMonitoring
    \/ MonitorCycle
    \/ EmergencyRthAll
    \/ \E f \in BagToSet(flows) : EmergencyRthFlow(f)
    \/ \E j \in BagToSet(journeys) : JourneyStep(j)
    \/ \E j \in BagToSet(journeys) : JourneyLand(j)

BulkSpec == InitFrom(BulkScenarios) /\ [][NextBulk]_vars

(* the Signal-Integrity Controller, with subscribers that return or raise *)
JamSubscribers == {<<"returns">>, <<"raises", "returns">>}

GroundedFleet ==
    { [fleet |-> <<LandedDrone(100 * Scale), LandedDrone(100 * Scale)>>,
       callbacks |-> <<"returns">>] }

InitJamming ==
    /\ InitFleet(GroundedFleet)
    /\ InitJam(JamSubscribers)
    /\ severity_call = NoSeverityCall

NextJamming ==
    \/ JamStart
    \/ SignalProbe
    \/ NetworkProbe
    \/ InterferenceProbe
    \/ GpsProbe
    \/ TestJamming
    \/ \E h \in BagToSet(handlers) : ChannelTested(h)
    \/ \E h \in BagToSet(handlers) : CooldownExpires(h)

JamSpec == InitJamming /\ [][NextJamming]_vars

(* a suspended handler is an asyncio task in a sleep: it is resumed *)
FairJamSpec ==
    /\ InitJamming
    /\ [][NextJamming]_vars
    /\ WF_vars(\E h \in BagToSet(handlers) : ChannelTested(h))
    /\ WF_vars(\E h \in BagToSet(handlers) : CooldownExpires(h))

(* calculate_jamming_severity called on its own: scores at, next to and    *)
(* away from each boundary, for every type that has a score formula, and   *)
(* the types and details that fall back on a default                       *)
ScoreSamples ==
    {b * Milli + d : b \in {0, 20, 40, 60, 80, 100},
                     d \in {-Milli, -10, -1, 0, 1, 10, Milli}}

LevelSamples == {0, 1, 399, 400, 401, 599, 600, 601, 799, 800, 801, 999, 1000}

SeverityInputs ==
    {[jamming_type |-> "signal_drop", details |-> [drop_percent |-> sc * 10]] :
        sc \in ScoreSamples}
    \cup {[jamming_type |-> "network", details |-> [packet_loss |-> sc * 5]] :
        sc \in ScoreSamples}
    \cup {[jamming_type |-> "rf_interference", details |-> [interference_level |-> l]] :
        l \in LevelSamples}
    \cup {[jamming_type |-> "gps", details |-> [available |-> a]] : a \in BOOLEAN}
    \cup {[jamming_type |-> t, details |-> NoDetails] :
        t \in {"signal_drop", "network", "rf_interference", "gps", "test"}}

CalculateSeverity ==
    /\ \E in \in SeverityInputs :
          severity_call' = [jamming_type |-> in.jamming_type, details |-> in.details,
                            severity |-> calculate_jamming_severity(in.jamming_type,
                                                                    in.details)]
    /\ UNCHANGED <<fleetVars, jamVars>>

SeveritySpec == InitJamming /\ [][CalculateSeverity]_vars

(* both dispatchers with the same subscribers, one of which raises: the    *)
(* first unit is in flight with a low battery, the second is charging      *)
DispatchScenarios ==
    { [fleet |-> <<ActiveDrone(FarOffset, FarOffset, FarOffset, 5 * Scale),
                   LandedDrone(97 * Scale)>>,
       callbacks |-> <<"raises", "returns">>],
      [fleet |-> <<ActiveDrone(0, -FarOffset, FarOffset, 18 * Scale),
                   LandedDrone(50 * Scale)>>,
       callbacks |-> <<"returns", "raises", "returns">>] }

InitDispatch ==
    /\ InitFleet(DispatchScenarios)
    /\ InitJam({callbacks})
    /\ severity_call = NoSeverityCall

(* the triggers of a dispatch: the battery monitor and the manual RTH      *)
(* command, the interference monitor and the test endpoint                 *)
NextDispatch ==
    \/ StartMonitoring
    \/ MonitorCycle
    \/ \E id \in Fleet \cup {UnknownId} : ManualRTH(id)
    \/ JamStart
    \/ InterferenceProbe
    \/ TestJamming
    \/ \E h \in BagToSet(handlers) : CooldownExpires(h)

DispatchSpec == InitDispatch /\ [][NextDispatch]_vars

(* the monitors with what their probes read *)

(* get_wifi_signal_strength, lines 74-95: -50 when iwconfig reports no     *)
(* signal level, 45 or 80 when iwconfig cannot be run, else the absolute   *)
(* value of the level reported                                             *)
WifiReadings == {-50, 45, 80}

(* line 102 *)
cellular_strength == 60

(* line 61 *)
history_capacity == 100

(* lines 51-56; the timestamps count the readings *)
Sample(timestamp, wifi) ==
    [timestamp |-> timestamp, wifi |-> wifi, cellular |-> cellular_strength]

next_timestamp(history) ==
    IF history = <<>> THEN 1 ELSE history[Len(history)].timestamp + 1

(* an append that never evicts *)
append_unbounded(history, signal_data) == Append(history, signal_data)

(* lines 58-62 *)
append_sample(history, signal_data) ==
    LET appended == Append(history, signal_data)
    IN IF Len(appended) > history_capacity THEN Tail(appended) ELSE appended

RECURSIVE Sum(_)
Sum(values) == IF values = <<>> THEN 0 ELSE Head(values) + Sum(Tail(values))

(* [s['wifi'] for s in samples if s['wifi']] *)
wifi_values(samples) ==
    LET kept == SelectSeq(samples, LAMBDA sample : sample.wifi # 0)
    IN [i \in 1..Len(kept) |-> kept[i].wifi]

(* np.mean, in hundredths *)
mean(values) == (Sum(values) * Scale) \div Len(values)

NoBreach == [breach |-> FALSE, details |-> NoDetails]

(* line 235, in thousandths of a percent *)
signal_drop_percent_of(older_avg, recent_avg) ==
    ((older_avg - recent_avg) * 100 * Milli) \div older_avg

(* line 226 *)
older_window(history) ==
    IF Len(history) >= 10
    THEN SubSeq(history, Len(history) - 9, Len(history) - 5)
    ELSE <<>>

(* lines 220-243: the breach analyze_signal_patterns reports, if any *)
analyze_signal_patterns(history) ==
    IF Len(history) < 5 THEN NoBreach
    ELSE LET recent_signals == SubSeq(history, Len(history) - 4, Len(history))
             older_signals == older_window(history)
         IN IF older_signals = <<>> THEN NoBreach
            ELSE LET recent_avg == mean(wifi_values(recent_signals))
                     older_avg == mean(wifi_values(older_signals))
                     signal_drop_percent == signal_drop_percent_of(older_avg, recent_avg)
                 IN IF signal_drop_percent > signal_drop_threshold
                    THEN [breach |-> TRUE,
                          details |-> [drop_percent |-> signal_drop_percent,
                                       recent_avg |-> recent_avg,
                                       older_avg |-> older_avg]]
                    ELSE NoBreach

(* one pass of monitor_signal_strength, lines 43-72, up to its first       *)
(* suspension                                                              *)
SignalPass ==
    /\ Idle("signal")
    /\ nSamples < MaxSamples
    /\ nSamples' = nSamples + 1
    /\ \E wifi_strength \in WifiReadings :
          LET signal_data == Sample(next_timestamp(signal_strength_history),
                                    wifi_strength)
              history == append_sample(signal_strength_history, signal_data)
              found == IF Len(history) >= 5 THEN analyze_signal_patterns(history)
                       ELSE NoBreach
          IN /\ signal_strength_history' = history
             /\ IF found.breach
                THEN /\ nBreach < MaxBreaches
                     /\ nBreach' = nBreach + 1
                     /\ \E written \in BOOLEAN :
                           SetJam(handle_potential_jamming(
                                    [Jam EXCEPT !.signal_strength_history = history],
                                    "signal", "signal_drop", found.details, written))
                ELSE UNCHANGED <<jamming_detected, current_channel, handlers,
                                 jamming_events, jam_log, evidence, frequency_hopping,
                                 jam_loops, nBreach>>
    /\ UNCHANGED <<fleetVars, severity_call, is_monitoring, jam_callbacks,
                   nJamStart, network_health, stalled>>

(* lines 135-140, without the response times *)
Health(packet_loss, connected_count) ==
    [checked |-> TRUE, packet_loss |-> packet_loss, connected_count |-> connected_count]

(* one pass of monitor_network_health, lines 108-153, up to its first      *)
(* suspension                                                              *)
NetworkPass ==
    /\ Idle("network")
    /\ \E connected_count \in 0..test_servers :
          LET packet_loss == packet_loss_of(connected_count)
              health == Health(packet_loss, connected_count)
          IN /\ network_health' = health
             /\ IF packet_loss > packet_loss_threshold
                THEN /\ nBreach < MaxBreaches
                     /\ nBreach' = nBreach + 1
                     /\ \E written \in BOOLEAN :
                           SetJam(handle_potential_jamming(
                                    [Jam EXCEPT !.network_health = health],
                                    "network", "network",
                                    [packet_loss |-> packet_loss,
                                     threshold |-> packet_loss_threshold],
                                    written))
                ELSE UNCHANGED <<jamming_detected, current_channel, handlers,
                                 jamming_events, jam_log, evidence, frequency_hopping,
                                 jam_loops, nBreach>>
    /\ UNCHANGED <<fleetVars, severity_call, is_monitoring, jam_callbacks,
                   nJamStart, signal_strength_history, nSamples, stalled>>

(* the history after n passes that all read the same strength *)
SteadyHistory(n, wifi) == [i \in 1..n |-> Sample(i, wifi)]

(* the passes the signal loop has made before the model takes over: how    *)
(* many, and the strength they read                                        *)
SteadyRuns == {<<8, -50>>, <<8, 80>>, <<98, 45>>}

(* the system after start_monitoring and quiet passes of its loops: every  *)
(* server answered, the strength was steady, no breach was reported        *)
StartedJam(subscribers, history) ==
    /\ is_monitoring = TRUE
    /\ jamming_detected = FALSE
    /\ current_channel = "wifi"
    /\ jam_callbacks \in subscribers
    /\ jam_loops = [m \in JamMonitors |-> 1]
    /\ handlers = EmptyBag
    /\ jamming_events = <<>>
    /\ jam_log = <<>>
    /\ evidence = <<>>
    /\ nBreach = 0
    /\ nJamStart = 1
    /\ signal_strength_history = history
    /\ network_health = Health(0, test_servers)
    /\ frequency_hopping = {}
    /\ nSamples = 0
    /\ stalled = "none"

InitSignal ==
    /\ InitFleet(GroundedFleet)
    /\ severity_call = NoSeverityCall
    /\ \/ InitJam({<<"returns">>})
       \/ \E run \in SteadyRuns :
             StartedJam({<<"returns">>}, SteadyHistory(run[1], run[2]))

NextSignal ==
    \/ JamStart
    \/ SignalPass
    \/ \E h \in BagToSet(handlers) : ChannelTested(h)
    \/ \E h \in BagToSet(handlers) : CooldownExpires(h)

SignalSpec == InitSignal /\ [][NextSignal]_vars

(* the Fleet Recovery Controller with its run cancelled at some point *)
NextCancel ==
    \/ StartMonitoring
    \/ MonitorCycle
    \/ HealthCycle
    \/ PositionCycle
    \/ CancelMonitoring
    \/ \E j \in BagToSet(journeys) : JourneyStep(j)
    \/ \E j \in BagToSet(journeys) : JourneyLand(j)

CancelSpec == InitFrom(FairScenarios) /\ [][NextCancel]_vars

(* the monitors whose probe is a synchronous call: subprocess.run (line    *)
(* 78) and socket.create_connection (lines 92 and 117) are called from the *)
(* coroutine itself, not awaited                                           *)
BlockingMonitors == {"signal", "network"}

(* the thread of the event loop is not inside a synchronous call *)
event_loop_free == stalled = "none"

(* a step of a task: the event loop runs one task at a time, on its thread *)
Scheduled(step) == event_loop_free /\ step

(* a monitor starts a pass and its probe call does not return *)
ProbeStalls(monitor) ==
    /\ event_loop_free
    /\ Idle(monitor)
    /\ stalled' = monitor
    /\ UNCHANGED <<fleetVars, severity_call, is_monitoring, jamming_detected,
                   current_channel, jam_callbacks, jam_loops, handlers, jamming_events,
                   jam_log, evidence, nBreach, nJamStart, frequency_hopping,
                   signal_strength_history, network_health, nSamples>>

(* the call returns at last, or times out: the pass goes on *)
ProbeReturns ==
    /\ ~event_loop_free
    /\ stalled' = "none"
    /\ UNCHANGED <<fleetVars, severity_call, is_monitoring, jamming_detected,
                   current_channel, jam_callbacks, jam_loops, handlers, jamming_events,
                   jam_log, evidence, nBreach, nJamStart, frequency_hopping,
                   signal_strength_history, network_health, nSamples>>

(* one pass of a monitor *)
Pass(monitor) ==
    CASE monitor = "signal" -> SignalProbe
      [] monitor = "network" -> NetworkProbe
      [] monitor = "interference" -> InterferenceProbe
      [] monitor = "gps" -> GpsProbe

InitStall ==
    /\ InitFleet(GroundedFleet)
    /\ InitJam({<<"returns">>})
    /\ severity_call = NoSeverityCall

NextStall ==
    \/ Scheduled(JamStart)
    \/ \E monitor \in JamMonitors : Scheduled(Pass(monitor))
    \/ \E h \in BagToSet(handlers) : Scheduled(ChannelTested(h))
    \/ \E h \in BagToSet(handlers) : Scheduled(CooldownExpires(h))
    \/ \E monitor \in BlockingMonitors : ProbeStalls(monitor)
    \/ ProbeReturns

StallSpec == InitStall /\ [][NextStall]_vars

(* the loops of both controllers with every step of a cycle that can      *)
(* raise: a unit whose return path cannot be calculated, a subscriber of   *)
(* each controller that raises, an evidence file that cannot be written    *)
RecoveryScenarios ==
    { [fleet |-> <<NoPositionDrone(FarOffset, 15 * Scale),
                   ActiveDrone(FarOffset, FarOffset, FarOffset, 5 * Scale)>>,
       callbacks |-> <<"raises", "returns">>] }

InitRecovery ==
    /\ InitFleet(RecoveryScenarios)
    /\ InitJam({<<"raises", "returns">>})
    /\ severity_call = NoSeverityCall

NextRecovery ==
    \/ StartMonitoring
    \/ MonitorCycle
    \/ JamStart
    \/ SignalProbe
    \/ NetworkProbe
    \/ InterferenceProbe
    \/ GpsProbe
    \/ \E h \in BagToSet(handlers) : ChannelTested(h)
    \/ \E h \in BagToSet(handlers) : CooldownExpires(h)

(* a suspended handler is an asyncio task in a sleep: it is resumed *)
RecoverySpec ==
    /\ InitRecovery
    /\ [][NextRecovery]_vars
    /\ WF_vars(\E h \in BagToSet(handlers) : ChannelTested(h))
    /\ WF_vars(\E h \in BagToSet(handlers) : CooldownExpires(h))

(* the signal and network monitors of a running system up to the cooldown *)
(* of their first event, with what the evidence of the event holds         *)
InitEvidence ==
    /\ InitFleet(GroundedFleet)
    /\ severity_call = NoSeverityCall
    /\ \E run \in SteadyRuns :
          StartedJam({<<"returns">>}, SteadyHistory(run[1], run[2]))

NextEvidence ==
    \/ SignalPass
    \/ NetworkPass
    \/ \E h \in BagToSet(handlers) : ChannelTested(h)

EvidenceSpec == InitEvidence /\ [][NextEvidence]_vars

(* the network and interference monitors, the interference level at, just *)
(* above and away from the threshold: 0.1 and 0.5 are the values lines 181 *)
(* and 185 return                                                          *)
LevelsNearThreshold == {100, 500, 800, 801, 999, 1000}

NextThreshold ==
    \/ JamStart
    \/ NetworkProbe
    \/ InterferencePass(LevelsNearThreshold)
    \/ \E h \in BagToSet(handlers) : ChannelTested(h)
    \/ \E h \in BagToSet(handlers) : CooldownExpires(h)

ThresholdSpec == InitJamming /\ [][NextThreshold]_vars

(* the journeys the battery monitor and the manual command start, plain    *)
(* and emergency, up to what follows their landing: the directory "logs"  *)
(* is absent, cannot be created or cannot be written to, a subscriber      *)
(* returns, raises or suspends                                             *)
AwaitingScenarios ==
    { [fleet |-> <<LandedDrone(100 * Scale),
                   ActiveDrone(0, 0, FarOffset, 5 * Scale)>>,
       callbacks |-> <<"awaits">>] }

InitLanding ==
    /\ \/ InitFleetOn(FairScenarios, {"absent", "blocked"})
       \/ InitFleetOn(AwaitingScenarios, {"readonly"})
    /\ InitJam({<<"returns">>})
    /\ severity_call = NoSeverityCall

NextLanding ==
    \/ StartMonitoring
    \/ MonitorCycle
    \/ MonitorResume
    \/ \E id \in Fleet : ManualRTH(id)
    \/ \E j \in BagToSet(journeys) : JourneyStep(j)
    \/ \E j \in BagToSet(journeys) : JourneyLand(j)
    \/ \E p \in BagToSet(parked) : ParkedResume(p)

LandingSpec == InitLanding /\ [][NextLanding]_vars

(* one journey per unit, started by the battery monitor from one and the   *)
(* same place: a unit in flight at 20, 15 or 5 percent, a subscriber that  *)
(* raises or none                                                          *)
JourneyStart == [lat |-> FarOffset, lon |-> -FarOffset, alt |-> FarOffset]

JourneyScenarios ==
    { [fleet |-> <<LandedDrone(99 * Scale),
                   ActiveDrone(JourneyStart.lat, JourneyStart.lon, JourneyStart.alt,
                               battery * Scale)>>,
       callbacks |-> subscribers] :
          battery \in {20, 15, 5},
          subscribers \in {<<"returns">>, <<"raises", "returns">>} }

NextJourney ==
    \/ StartMonitoring
    \/ MonitorCycle
    \/ \E j \in BagToSet(journeys) : JourneyStep(j)
    \/ \E j \in BagToSet(journeys) : JourneyLand(j)

JourneySpec == InitFrom(JourneyScenarios) /\ [][NextJourney]_vars

(* the commands and the journeys with the position updater running: a     *)
(* unit on the ground and a unit in flight away from the home base         *)
AwayScenarios ==
    { [fleet |-> <<LandedDrone(99 * Scale),
                   ActiveDrone(FarOffset, -FarOffset, FarOffset, 15 * Scale)>>,
       callbacks |-> <<"returns">>] }

NextHome ==
    \/ Next
    \/ PositionCycle

HomeSpec == InitFrom(AwayScenarios) /\ [][NextHome]_vars

----------------------------------------------------------------------------
(* Properties *)

G1 == DroneIds[1]
G2 == DroneIds[2]

(* number of return-journey tasks in flight for a unit *)
JourneyCount(js, id) ==
    LET mine == {j \in BagToSet(js) : j.drone_id = id}
    IN BagCardinality([j \in mine |-> js[j]])

MonitorCycled == cycles' = cycles + 1
ManualCalled(id) == nManual' = nManual + 1 /\ manual_call'.drone_id = id
Landed(id) == alerts'[id]["drone_landed"] = alerts[id]["drone_landed"] + 1
AtHome(drone) == drone.lat = home_base.lat /\ drone.lon = home_base.lon

(* C1: a unit that is active with battery <= 10 when a monitor cycle       *)
(* evaluates it is returning, in emergency mode, with rth_reason           *)
(* critical_battery after that cycle.                                      *)
C1_EmergencyRth ==
    [][\A id \in Fleet :
         (MonitorCycled /\ drones[id].status = "active"
            /\ drones[id].battery <= emergency_rth_threshold)
         => /\ drones'[id].status = "returning"
            /\ drones'[id].emergency_mode
            /\ drones'[id].rth_reason = "critical_battery"]_vars

C1_Witness ==
    /\ cycles >= 1 /\ nBulk = 0 /\ nManual = 0
    /\ \E id \in Fleet : /\ drones[id].status = "returning"
                          /\ drones[id].emergency_mode
                          /\ drones[id].rth_reason = "critical_battery"
                          /\ drones[id].battery <= emergency_rth_threshold

(* C2: a unit that is active, not returning home, with 10 < battery <= 20  *)
(* when a monitor cycle evaluates it is returning with rth_reason          *)
(* low_battery and emergency_mode false after that cycle.                  *)
C2_AutoRth ==
    [][\A id \in Fleet :
         (MonitorCycled /\ drones[id].status = "active" /\ ~drones[id].returning_home
            /\ drones[id].battery > emergency_rth_threshold
            /\ drones[id].battery <= rth_threshold)
         => /\ drones'[id].status = "returning"
            /\ drones'[id].rth_reason = "low_battery"
            /\ drones'[id].emergency_mode = FALSE]_vars

C2_Witness ==
    /\ cycles >= 1 /\ nBulk = 0 /\ nManual = 0
    /\ \E id \in Fleet : /\ drones[id].status = "returning"
                          /\ drones[id].rth_reason = "low_battery"
                          /\ ~drones[id].emergency_mode
                          /\ drones[id].battery = rth_threshold

(* C3: a monitor cycle that runs while a unit has returning_home = true    *)
(* leaves the unit's rth_reason as it is and launches no journey for it.   *)
C3_MonitorIdempotent ==
    [][\A id \in Fleet :
         (MonitorCycled /\ drones[id].returning_home)
         => /\ drones'[id].rth_reason = drones[id].rth_reason
            /\ JourneyCount(journeys', id) = JourneyCount(journeys, id)
            /\ alerts'[id] = alerts[id]]_vars

(* the unit was auto-RTH'd by the first cycle; it is still returning on    *)
(* its one journey, its battery now at 10 or less, after a second cycle    *)
C3_Witness ==
    /\ cycles >= 2 /\ nBulk = 0 /\ nManual = 0
    /\ \E id \in Fleet : /\ drones[id].returning_home
                          /\ drones[id].rth_reason = "low_battery"
                          /\ drones[id].battery <= emergency_rth_threshold
                          /\ JourneyCount(journeys, id) = 1
                          /\ alerts[id]["auto_rth"] = 1
                          /\ alerts[id]["emergency_rth"] = 0

(* C4: a manual RTH command for a unit that already has returning_home =   *)
(* true changes no rth_reason, launches no journey and dispatches no alert.*)
C4_ManualRthNoOp ==
    [][\A id \in Fleet :
         (ManualCalled(id) /\ drones[id].returning_home)
         => /\ drones'[id].rth_reason = drones[id].rth_reason
            /\ JourneyCount(journeys', id) = JourneyCount(journeys, id)
            /\ alerts'[id]["auto_rth"] = alerts[id]["auto_rth"]]_vars

(* C5: a unit's status only ever changes from active to returning and      *)
(* from returning to landed.                                               *)
C5_StatusTransitions ==
    [][\A id \in Fleet :
         drones'[id].status # drones[id].status
         => \/ drones[id].status = "active" /\ drones'[id].status = "returning"
            \/ drones[id].status = "returning" /\ drones'[id].status = "landed"]_vars

(* C6: with monitor cycles and emergency-RTH-all commands only (no manual  *)
(* RTH), a unit never has more than one return-journey task in flight.     *)
C6_OneJourneyPerUnit ==
    nManual = 0 => \A id \in Fleet : JourneyCount(journeys, id) <= 1

C8_LandDrone ==
    [][\A id \in Fleet :
         Landed(id)
         => /\ drones'[id].status = "landed"
            /\ ~drones'[id].returning_home
            /\ ~drones'[id].emergency_mode
            /\ AtHome(drones'[id])
            /\ drones'[id].alt = 0]_vars

C8_Witness ==
    \E id \in Fleet : /\ alerts[id]["drone_landed"] >= 1
                      /\ drones[id].status = "landed"
                      /\ drones[id].rth_reason = "critical_battery"
                      /\ drones[id].battery = 0

(* C9: every unit's battery is between 0 and 100 in every reachable state. *)
C9_BatteryRange ==
    \A id \in Fleet : drones[id].battery >= 0 /\ drones[id].battery <= 100 * Scale

(* the journey has clamped one battery at 0 and is still running, and the  *)
(* monitor has charged the other unit from 99 to 100                       *)
C9_Witness ==
    /\ callbacks[1] = "raises" /\ cycles >= 1
    /\ drones[G1].battery = 100 * Scale
    /\ drones[G2].battery = 0
    /\ \E j \in BagToSet(journeys) : j.drone_id = G2 /\ j.step <= steps

(* C10: a manual RTH command for an id that is not in the fleet returns    *)
(* false and changes no unit record, flag, task or alert.                  *)
C10_UnknownUnit ==
    [][(nManual' = nManual + 1 /\ manual_call'.drone_id \notin Fleet)
         => /\ manual_call'.returned = "false"
            /\ UNCHANGED <<drones, monitoring, mon, journeys, flows, parked,
                           alerts, delivered>>]_vars

C10_Witness == manual_call = [drone_id |-> UnknownId, returned |-> "false"]

----------------------------------------------------------------------------
(* Properties of emergency_rth_all and start_monitoring *)

Flow(id) == [drone_id |-> id]
BulkIssued == nBulk' = nBulk + 1
FlowRan(id) == CopiesIn(Flow(id), flows') = CopiesIn(Flow(id), flows) - 1

(* C11: an emergency-RTH-all command hands one emergency_rth flow to the   *)
(* gather for every unit that is active; the step in which a unit's flow   *)
(* runs leaves that unit returning with rth_reason critical_battery and,   *)
(* unless its own path calculation fails, with one more journey task and   *)
(* one more emergency_rth alert, whatever happened to the other units'     *)
(* flows; and it touches no other unit's record, journeys or pending flow. *)
C11_BulkIsolation ==
    [][/\ BulkIssued
          => \A id \in Fleet :
                CopiesIn(Flow(id), flows') =
                    CopiesIn(Flow(id), flows) + (IF drones[id].status = "active" THEN 1 ELSE 0)
       /\ \A id \in Fleet :
             FlowRan(id)
             => /\ drones'[id].status = "returning"
                /\ drones'[id].rth_reason = "critical_battery"
                /\ drones'[id].position_valid
                     => /\ JourneyCount(journeys', id) = JourneyCount(journeys, id) + 1
                        /\ alerts'[id]["emergency_rth"] = alerts[id]["emergency_rth"] + 1
                        /\ \A i \in 1..Len(callbacks) :
                              delivered'[i][id]["emergency_rth"] =
                                  delivered[i][id]["emergency_rth"] + 1
                /\ \A other \in Fleet \ {id} :
                      /\ drones'[other] = drones[other]
                      /\ JourneyCount(journeys', other) = JourneyCount(journeys, other)
                      /\ CopiesIn(Flow(other), flows') = CopiesIn(Flow(other), flows)]_vars

(* one command, before any monitor cycle: the flow of the unit without a   *)
(* position failed (returning, no journey, no alert), the first subscriber *)
(* raises, and the other unit is returning on its own journey              *)
C11_Witness ==
    /\ nBulk = 1 /\ cycles = 0 /\ flows = EmptyBag
    /\ callbacks[1] = "raises"
    /\ ~drones[G1].position_valid /\ drones[G1].status = "returning"
    /\ JourneyCount(journeys, G1) = 0 /\ alerts[G1]["emergency_rth"] = 0
    /\ drones[G2].status = "returning" /\ drones[G2].rth_reason = "critical_battery"
    /\ JourneyCount(journeys, G2) = 1
    /\ delivered[2][G2]["emergency_rth"] = 1

StartCalled == nStart' = nStart + 1

(* C12: a start_monitoring call made while monitoring is set changes       *)
(* neither the flag, nor the task list, nor the number of battery, health  *)
(* and position loops, nor the battery monitor; there is never more than   *)
(* one loop of each kind.                                                  *)
C12_StartIdempotent ==
    /\ [](\A n \in LoopSet : loops[n] <= 1)
    /\ [][(StartCalled /\ monitoring)
            => /\ monitoring'
               /\ tasks' = tasks /\ tasks' = LoopNames
               /\ loops' = loops
               /\ mon' = mon]_vars

(* a second call was made while the loops were running *)
C12_Witness ==
    /\ nStart = 2 /\ monitoring /\ tasks = LoopNames
    /\ \A n \in LoopSet : loops[n] = 1
    /\ cycles >= 1 /\ position_updates >= 1

----------------------------------------------------------------------------
(* Properties of the AntiJammingSystem *)

(* C13: after any number of start calls there is at most one task running  *)
(* each of the signal, network, interference and GPS monitors.             *)
C13_OneLoopEach == \A m \in JamMonitors : jam_loops[m] <= 1

BreachReported == nBreach' = nBreach + 1
EventCreated == Len(jamming_events') > Len(jamming_events)
jamState == <<jamming_detected, current_channel, handlers, jamming_events, jam_log, evidence,
             frequency_hopping>>

(* C14: at most one handle_potential_jamming call is in progress, and only *)
(* while the flag is set; a breach reported while the flag is set changes  *)
(* nothing (no event, no countermeasure, no dispatch); an event is created *)
(* only by a step that finds the flag clear and leaves it set.             *)
C14_OneLiveEvent ==
    /\ [](BagCardinality(handlers) <= 1 /\ (handlers # EmptyBag => jamming_detected))
    /\ [][(BreachReported /\ jamming_detected) => UNCHANGED jamState]_vars
    /\ [][EventCreated => /\ ~jamming_detected /\ jamming_detected'
                          /\ Len(jamming_events') = Len(jamming_events) + 1]_vars

(* a breach was dropped while the handler of the first event was suspended, *)
(* with two tasks running every monitor                                     *)
C14_Witness ==
    /\ jamming_detected /\ nBreach >= 2 /\ Len(jamming_events) = 1
    /\ BagCardinality(handlers) = 1
    /\ jam_loops["network"] = 2

(* the number of times subscriber i was invoked with event e *)
Dispatches(i, e) == Cardinality({k \in 1..Len(jam_log) : jam_log[k] = <<i, e>>})

CooldownEnded ==
    \E h \in BagToSet(handlers) : h.pc = "cooldown" /\ ~BagIn(h, handlers')

(* the events whose evidence file was written *)
Stored == {evidence[i].event : i \in 1..Len(evidence)}

C16_FlagCleared == jamming_detected ~> ~jamming_detected

(* C17: every event that was created and whose handler is not suspended in *)
(* a channel test has been delivered to every registered subscriber.       *)
C17_EveryEventDelivered ==
    \A e \in 1..Len(jamming_events) :
        (\A h \in BagToSet(handlers) : ~(h.event = e /\ h.pc = "test_channel"))
        => \A i \in 1..Len(jam_callbacks) : Dispatches(i, e) >= 1

InOrder(n) == [i \in 1..n |-> i]

(* C18: a step in which notify_operators is called invokes every fleet     *)
(* subscriber, in registration order, with that alert, and the monitor     *)
(* cycle or command goes on (the unit after it is charged, manual_rth      *)
(* returns true); a step in which a jamming event is dispatched invokes    *)
(* every jamming subscriber, in registration order, with that event, and   *)
(* the handler goes on to its cooldown.  Subscribers that raise included.  *)
C18_DispatchIsolation ==
    /\ [][\A id \in Fleet : \A t \in AlertTypes :
            alerts'[id][t] # alerts[id][t]
            => /\ \A i \in 1..Len(callbacks) :
                     delivered'[i][id][t] - delivered[i][id][t] = alerts'[id][t] - alerts[id][t]
               /\ dispatch_log' = InOrder(Len(callbacks))]_vars
    /\ [][(MonitorCycled /\ alerts'[G1] # alerts[G1] /\ drones[G2].status = "landed")
            => /\ mon'.pc = "sleep"
               /\ drones'[G2].battery = charge(drones[G2].battery)]_vars
    /\ [][\A id \in Fleet : (ManualCalled(id) /\ alerts'[id] # alerts[id])
                              => manual_call'.returned = "true"]_vars
    /\ [][jam_log' # jam_log
            => \E e \in 1..Len(jamming_events') :
                  /\ jam_log' = jam_log \o [i \in 1..Len(jam_callbacks) |-> <<i, e>>]
                  /\ \E h \in BagToSet(handlers') : h.event = e /\ h.pc = "cooldown"]_vars

(* the first subscriber of both dispatchers raises; the second got the     *)
(* monitor's emergency_rth alert and a jamming event, the unit after the   *)
(* triggering one was charged, and a manual RTH returned true              *)
C18_Witness ==
    /\ callbacks[1] = "raises" /\ jam_callbacks[1] = "raises"
    /\ delivered[2][G1]["emergency_rth"] = 1
    /\ drones[G2].battery = 99 * Scale
    /\ Dispatches(2, 1) = 1
    /\ manual_call.returned = "true"

(* C19: calculate_jamming_severity returns CRITICAL for a score >= 80,     *)
(* HIGH for 60 <= score < 80, MEDIUM for 40 <= score < 60 and LOW for a    *)
(* score < 40.                                                             *)
C19_SeverityBuckets ==
    severity_call.jamming_type # "none"
    => LET score == severity_score(severity_call.jamming_type, severity_call.details)
       IN /\ score >= 80 * Milli => severity_call.severity = "CRITICAL"
          /\ (score >= 60 * Milli /\ score < 80 * Milli) => severity_call.severity = "HIGH"
          /\ (score >= 40 * Milli /\ score < 60 * Milli) => severity_call.severity = "MEDIUM"
          /\ score < 40 * Milli => severity_call.severity = "LOW"

(* the score 60 exactly, from a signal drop of 600 percent *)
C19_Witness ==
    /\ severity_call.jamming_type = "signal_drop"
    /\ severity_call.details = [drop_percent |-> 600 * Milli]
    /\ severity_call.severity = "HIGH"

(* C20: a step that creates a network-type event creates exactly one, from *)
(* a packet loss above the threshold of 15, found with the flag clear, and *)
(* its severity is the bucket of packet_loss / 5, which is LOW; for a      *)
(* packet loss of 20 the score is 4 and the severity LOW.                  *)
C20_NetworkEvent ==
    /\ [](/\ 20 * Milli > packet_loss_threshold
          /\ severity_score("network", [packet_loss |-> 20 * Milli,
                                        threshold |-> packet_loss_threshold]) = 4 * Milli
          /\ calculate_jamming_severity("network", [packet_loss |-> 20 * Milli,
                                        threshold |-> packet_loss_threshold]) = "LOW")
    /\ [][(EventCreated /\ jamming_events'[Len(jamming_events')].type = "network")
            => LET e == jamming_events'[Len(jamming_events')]
               IN /\ ~jamming_detected
                  /\ Len(jamming_events') = Len(jamming_events) + 1
                  /\ e.details.packet_loss > 15 * Milli
                  /\ e.details.packet_loss \div 5 < 40 * Milli
                  /\ e.severity = "LOW"]_vars

(* one network event, of severity LOW, from one server of three out of reach *)
C20_Witness ==
    /\ Len(jamming_events) = 1 /\ nBreach = 1
    /\ jamming_events[1].type = "network"
    /\ jamming_events[1].details.packet_loss = packet_loss_of(2)
    /\ jamming_events[1].severity = "LOW"

(* the handler that is inside switch_to_backup_channel *)
Switching == {h \in BagToSet(handlers) : h.pc = "test_channel"}

(* the configured channels other than the current one, in configured order *)
OtherChannels(current) == SelectSeq(backup_channels, LAMBDA c : c # current)

(* C21: current_channel changes only at the end of the failover of a       *)
(* signal_drop or network event; that failover has probed every configured *)
(* channel other than the current one, in configured order, and the        *)
(* channel becomes the first of those whose test succeeded, or stays as it *)
(* is when none did. An event of another type never changes the channel.   *)
C21_ChannelFailover ==
    [][/\ current_channel' # current_channel =>
             \E h \in Switching :
                /\ jamming_events[h.event].type \in {"signal_drop", "network"}
                /\ next_backup(h.k, current_channel) = 0
       /\ \A h \in Switching :
             (\A h2 \in BagToSet(handlers') : h2.pc # "test_channel") =>
                LET probed == Append(h.available, backup_channels[h.k])
                    passed == SelectSeq(OtherChannels(current_channel),
                                        test_channel_connectivity)
                IN /\ [i \in 1..Len(probed) |-> probed[i]]
                         = OtherChannels(current_channel)
                   /\ current_channel' = IF passed = <<>> THEN current_channel
                                         ELSE passed[1]
      ]_vars

(* two failovers have ended: wifi to cellular, then cellular back to wifi *)
C21_Witness ==
    /\ Len(jamming_events) = 2
    /\ \A i \in 1..2 : jamming_events[i].type \in {"signal_drop", "network"}
    /\ Switching = {}
    /\ current_channel = "wifi"

(* a reading has been taken *)
SampleTaken == nSamples' = nSamples + 1

(* C22: the signal history never holds more than 100 samples and its       *)
(* samples are in the order they were taken, the latest one last; a        *)
(* reading taken while the history is full evicts exactly the oldest       *)
(* sample, and one taken before that evicts nothing. This holds with       *)
(* several signal loops running.                                           *)
C22_HistoryBounded ==
    /\ [](/\ Len(signal_strength_history) <= 100
          /\ \A i \in 1..Len(signal_strength_history) - 1 :
                signal_strength_history[i].timestamp
                  < signal_strength_history[i + 1].timestamp)
    /\ [][SampleTaken =>
            LET n == Len(signal_strength_history)
                m == Len(signal_strength_history')
            IN /\ m >= 1
               /\ signal_strength_history'[m].timestamp
                     = next_timestamp(signal_strength_history)
               /\ IF n = 100
                  THEN /\ m = 100
                       /\ SubSeq(signal_strength_history', 1, 99)
                             = SubSeq(signal_strength_history, 2, 100)
                  ELSE /\ m = n + 1
                       /\ SubSeq(signal_strength_history', 1, n)
                             = signal_strength_history]_vars

(* with two signal loops running, the history is full and its two oldest   *)
(* samples have been evicted                                               *)
C22_Witness ==
    /\ jam_loops["signal"] = 2
    /\ Len(signal_strength_history) = 100
    /\ signal_strength_history[1].timestamp = 3
    /\ signal_strength_history[100].timestamp = 102

(* the last five readings and the five before them, as the strengths read *)
LastFive(history) ==
    [i \in 1..5 |-> history[Len(history) - 5 + i].wifi]
FiveBefore(history) ==
    [i \in 1..5 |-> history[Len(history) - 10 + i].wifi]

(* C30: the signal monitor reports a breach only with at least ten samples *)
(* in the history, and only when the mean strength of the last five is     *)
(* more than 30% below the mean of the five before them.                   *)
C30_SignalDropRule ==
    [][(SampleTaken /\ BreachReported) =>
          /\ Len(signal_strength_history') >= 10
          /\ 10 * Sum(LastFive(signal_strength_history'))
                < 10 * Sum(FiveBefore(signal_strength_history'))
                    - 3 * Abs(Sum(FiveBefore(signal_strength_history')))]_vars

(* the run of start_monitoring has been cancelled *)
Stopped == mon.pc = "cancelled"

(* C23: once the controller is stopped no unit record is changed and no    *)
(* alert is dispatched: its loops and the journey tasks in flight have     *)
(* stopped, and the units that had landed stay landed.                     *)
C23_StoppedIsQuiet ==
    [][Stopped => /\ drones' = drones
                  /\ alerts' = alerts
                  /\ delivered' = delivered]_vars

(* C24: while the probe call of one monitor is stalled, each of the other  *)
(* three monitors that is between two passes can run its next pass (and so *)
(* report a breach).                                                       *)
C24_StallIsLocal ==
    \A monitor \in BlockingMonitors :
       stalled = monitor =>
          \A other \in JamMonitors \ {monitor} :
             (Idle(other) /\ nBreach < MaxBreaches) => ENABLED Scheduled(Pass(other))

(* the monitor that reports the events of a type *)
MonitorOf(jamming_type) ==
    CASE jamming_type = "signal_drop" -> "signal"
      [] jamming_type = "network" -> "network"
      [] jamming_type = "rf_interference" -> "interference"
      [] jamming_type = "gps" -> "gps"

(* the events whose handler was ended by an exception *)
Failed ==
    {e \in 1..Len(jamming_events) :
        /\ e \notin Stored
        /\ \A h \in BagToSet(handlers) : h.event # e}

(* C25: no monitor loop ever ends while its flag is set, whatever a cycle  *)
(* raised: each of the four signal-integrity monitors is again and again   *)
(* at the point where its next cycle starts, and so is the battery         *)
(* monitor.                                                                *)
C25_LoopsSurvive ==
    /\ \A monitor \in JamMonitors :
          /\ [](jam_loops[monitor] = nJamStart)
          /\ [](is_monitoring => <>Idle(monitor))
    /\ [](monitoring => <>(mon.pc = "sleep" /\ loops["battery-monitor"] = 1))

(* the evidence write of a signal_drop or network event has raised after   *)
(* the failover, a path calculation and a subscriber have raised in a      *)
(* battery-monitor cycle, and the loops are ready for their next cycle     *)
C25_Witness ==
    /\ nJamStart = 1
    /\ \E e \in Failed : jamming_events[e].type \in {"signal_drop", "network"}
    /\ \A e \in Failed : Idle(MonitorOf(jamming_events[e].type))
    /\ cycles >= 1
    /\ drones[G1].status = "returning" /\ JourneyCount(journeys, G1) = 0
    /\ alerts[G2]["emergency_rth"] = 1
    /\ mon.pc = "sleep"

(* the battery monitor has run: from its sleep, or from a subscriber it    *)
(* was suspended in                                                        *)
MonitorRan == cycles' # cycles \/ (mon.pc = "notify" /\ mon' # mon)

(* the units the for-loop of the monitor has gone through in this step:    *)
(* from the one after the unit it was suspended for (or from the first) to *)
(* the unit it is suspended for now (or to the last)                       *)
Processed ==
    {k \in 1..Len(DroneIds) :
        /\ (mon.pc = "notify" => k > mon.i)
        /\ (mon'.pc = "notify" => k <= mon'.i)}

(* what a cycle is to do with the battery of a unit *)
ExpectedBattery(drone) ==
    IF drone.status = "active" /\ ~drone.returning_home
    THEN IF drone.battery <= 20 * Scale
         THEN drone.battery
         ELSE Max(0, drone.battery - Scale \div 2)
    ELSE IF drone.status = "landed" /\ drone.battery < 100 * Scale
    THEN Min(100 * Scale, drone.battery + 2 * Scale)
    ELSE drone.battery

(* C26: a battery-monitor cycle takes 0.5 (down to 0) from an active unit  *)
(* that is not returning and triggers no RTH in this cycle, adds 2.0 (up   *)
(* to 100) to a landed unit below 100, and leaves the battery of a         *)
(* returning unit, and of the unit it triggered an RTH for in this cycle,  *)
(* as it is.                                                               *)
C26_CycleEffect ==
    [][MonitorRan =>
         /\ \A k \in Processed :
               drones'[DroneIds[k]].battery = ExpectedBattery(drones[DroneIds[k]])
         /\ mon.pc = "notify" =>
               drones'[DroneIds[mon.i]].battery = drones[DroneIds[mon.i]].battery]_vars

(* line 17 *)
ConfiguredChannels == {backup_channels[i] : i \in 1..Len(backup_channels)}

(* C27: current_channel is always one of the configured channels. *)
C27_ChannelConfigured == current_channel \in {"wifi", "cellular", "ethernet"}

(* a failover has ended and has moved the system off its initial channel *)
C27_Witness ==
    /\ jamming_events # <<>>
    /\ Switching = {}
    /\ current_channel \in ConfiguredChannels \ {"wifi"}

(* the events whose countermeasures are still in the channel failover *)
InFailover == {h.event : h \in Switching}

(* C28: frequency hopping is enabled for an event exactly when its         *)
(* severity is HIGH or CRITICAL, whatever its type: never for a LOW or     *)
(* MEDIUM event, and for every HIGH or CRITICAL one as soon as its         *)
(* countermeasures are past the channel failover.                          *)
C28_FrequencyHopping ==
    \A e \in 1..Len(jamming_events) :
       /\ e \in frequency_hopping => jamming_events[e].severity \in {"HIGH", "CRITICAL"}
       /\ (jamming_events[e].severity \in {"HIGH", "CRITICAL"} /\ e \notin InFailover)
             => e \in frequency_hopping

(* a HIGH signal_drop event and a CRITICAL rf_interference event with      *)
(* hopping enabled, after a MEDIUM or LOW event without it                 *)
C28_Witness ==
    /\ Len(jamming_events) = 3
    /\ InFailover = {}
    /\ \E e \in frequency_hopping :
          jamming_events[e].type = "signal_drop" /\ jamming_events[e].severity = "HIGH"
    /\ \E e \in frequency_hopping :
          jamming_events[e].type = "rf_interference"
    /\ \E e \in 1..3 :
          e \notin frequency_hopping /\ jamming_events[e].severity \in {"LOW", "MEDIUM"}

(* the evidence files that hold the snapshot of an event *)
SnapshotsOf(e) == {i \in 1..Len(evidence) : evidence[i].event = e}

(* C29: every event has exactly one evidence snapshot once its             *)
(* countermeasures are past the channel failover; a snapshot holds the     *)
(* event it is captured for, the network health and the last min(20, n)    *)
(* samples of the signal history as they are when it is captured.          *)
C29_EvidencePerEvent ==
    /\ [](\A e \in 1..Len(jamming_events) :
             e \notin InFailover => Cardinality(SnapshotsOf(e)) = 1)
    /\ [][Len(evidence') > Len(evidence) =>
            LET captured == evidence'[Len(evidence')]
                n == Len(signal_strength_history')
            IN /\ Len(evidence') = Len(evidence) + 1
               /\ captured.event = Len(jamming_events')
               /\ captured.network_health = network_health'
               /\ captured.signal_history
                     = SubSeq(signal_strength_history', n - Min(20, n) + 1, n)]_vars

----------------------------------------------------------------------------
(* Properties of the landing, the alerts and the journey *)

ProcedureRan(id) == procedures'[id] # procedures[id]

(* an emergency journey of the unit lands in this step, its notice         *)
(* dispatched to every subscriber                                          *)
EmergencyJourneyLands(id) ==
    \E j \in BagToSet(journeys) :
        /\ j.drone_id = id /\ j.emergency /\ j.step = steps + 1
        /\ CopiesIn(j, journeys') = CopiesIn(j, journeys) - 1
        /\ alerts'[id]["drone_landed"] = alerts[id]["drone_landed"] + 1

(* an emergency journey of the unit, suspended in a subscriber of its      *)
(* landing notice, resumes and completes the notice                        *)
EmergencyLandingResumes(id) ==
    \E p \in BagToSet(parked) :
        /\ p.drone_id = id /\ p.emergency /\ p.kind = "land"
        /\ CopiesIn(p, parked') = CopiesIn(p, parked) - 1

(* C31: emergency_landing_procedures runs only in a step that ends an      *)
(* emergency journey of the unit, once, and never more often than the unit *)
(* has been landed; it changes nothing of the unit: in the step of the     *)
(* landing the unit is left landed with the record land_drone gave it, in  *)
(* a later step with the record it had; when the directory cannot be       *)
(* created or the file cannot be written, no log is added and the          *)
(* directory is left as it was, else one log of that unit is added.        *)
C31_EmergencyLanding ==
    /\ [](\A id \in Fleet : procedures[id] <= alerts[id]["drone_landed"])
    /\ [][\A id \in Fleet :
            ProcedureRan(id)
            => /\ procedures'[id] = procedures[id] + 1
               /\ \/ /\ EmergencyJourneyLands(id)
                     /\ drones'[id].status = "landed"
                     /\ drones'[id] = land_drone_update(drones[id])
                  \/ /\ EmergencyLandingResumes(id)
                     /\ drones'[id] = drones[id]
               /\ IF logs_dir \in {"readonly", "blocked"}
                  THEN emergency_logs' = emergency_logs /\ logs_dir' = logs_dir
                  ELSE /\ Len(emergency_logs') = Len(emergency_logs) + 1
                       /\ emergency_logs'[Len(emergency_logs')].drone_id = id
                       /\ logs_dir' = "present"]_vars

(* the procedure has run for the unit that made an emergency journey, the  *)
(* directory could not be created, no log exists, the unit is landed       *)
C31_Witness ==
    /\ procedures[G2] = 1
    /\ logs_dir = "blocked" /\ emergency_logs = <<>>
    /\ drones[G2].status = "landed" /\ drones[G2].rth_reason = "critical_battery"
    /\ AtHome(drones[G2]) /\ drones[G2].alt = 0

(* the step makes an emergency RTH of the unit: the monitor finds it       *)
(* active at 10 or less, or its flow of an emergency-RTH-all command runs  *)
EmergencyTriggered(id) ==
    \/ MonitorCycled /\ drones[id].status = "active"
          /\ drones[id].battery <= emergency_rth_threshold
    \/ FlowRan(id)

(* the step makes an auto RTH of the unit: the monitor finds it active,    *)
(* not returning, above 10 and at 20 or less, or a manual command names it *)
AutoTriggered(id) ==
    \/ MonitorCycled /\ drones[id].status = "active" /\ ~drones[id].returning_home
          /\ drones[id].battery > emergency_rth_threshold
          /\ drones[id].battery <= rth_threshold
    \/ ManualCalled(id)

(* a journey of the unit has made its steps and ends in this step *)
JourneyEnds(id) ==
    \E j \in BagToSet(journeys) :
        /\ j.drone_id = id /\ j.step = steps + 1
        /\ CopiesIn(j, journeys') = CopiesIn(j, journeys) - 1

(* the step makes one notify_operators call of that type for the unit and  *)
(* invokes every subscriber once with it                                   *)
DispatchedOnce(id, type) ==
    /\ alerts'[id][type] = alerts[id][type] + 1
    /\ \A i \in 1..Len(callbacks) :
          delivered'[i][id][type] = delivered[i][id][type] + 1

NotDispatched(id, type) ==
    /\ alerts'[id][type] = alerts[id][type]
    /\ \A i \in 1..Len(callbacks) : delivered'[i][id][type] = delivered[i][id][type]

Decrement(k) == 100 * Scale - journey_battery(100 * Scale, k)

(* C33: while a journey is in flight and has made its steps 0..k, the      *)
(* unit is at start + (home - start) * k/10 with altitude                  *)
(* start_altitude * (1 - k/10), start being where the unit was when the    *)
(* journey began; the battery decrement of a step is 0.5 * (1 + k/10) and  *)
(* does not decrease with k.                                               *)
C33_LinearInterpolation ==
    /\ \A j \in BagToSet(journeys) :
          j.step >= 1
          => LET k == j.step - 1
                 drone == drones[j.drone_id]
             IN /\ drone.lat = JourneyStart.lat
                                + ((home_base.lat - JourneyStart.lat) * k) \div steps
                /\ drone.lon = JourneyStart.lon
                                + ((home_base.lon - JourneyStart.lon) * k) \div steps
                /\ drone.alt = (JourneyStart.alt * (steps - k)) \div steps
    /\ \A k \in 0..steps :
          /\ Decrement(k) = ((Scale \div 2) * (steps + k)) \div steps
          /\ k < steps => Decrement(k) <= Decrement(k + 1)

(* C34: in every state, a unit has status returning exactly when its       *)
(* returning_home is true.                                                 *)
C34_ReturningIffFlag ==
    \A id \in Fleet : (drones[id].status = "returning") <=> drones[id].returning_home

(* a manual command and the monitor each started a journey of the unit;    *)
(* the first has landed it, flag cleared, the second is still in flight    *)
C34_Witness ==
    /\ nManual = 1 /\ cycles >= 1
    /\ drones[G2].status = "landed" /\ ~drones[G2].returning_home
    /\ alerts[G2]["drone_landed"] = 1
    /\ JourneyCount(journeys, G2) = 1

(* C35: in every state, a unit with status landed is at the home base at   *)
(* altitude 0; no step that leaves it landed changes its position or its   *)
(* altitude.                                                               *)
C35_LandedAtHome ==
    /\ [](\A id \in Fleet :
            drones[id].status = "landed" => AtHome(drones[id]) /\ drones[id].alt = 0)
    /\ [][\A id \in Fleet :
            (drones[id].status = "landed" /\ drones'[id].status = "landed")
            => /\ drones'[id].lat = drones[id].lat
               /\ drones'[id].lon = drones[id].lon
               /\ drones'[id].alt = drones[id].alt]_vars

(* the unit that was away from the home base has landed there while a      *)
(* second journey of it is still in flight, and the position updater has   *)
(* made its passes                                                         *)
C35_Witness ==
    /\ position_updates = MaxCycles /\ nManual = 1
    /\ drones[G2].status = "landed" /\ AtHome(drones[G2]) /\ drones[G2].alt = 0
    /\ drones[G2].rth_reason = "low_battery"
    /\ alerts[G2]["drone_landed"] = 1
    /\ \E j \in BagToSet(journeys) : j.drone_id = G2 /\ j.step >= 1

(* C36: no step that leaves a unit landed lowers its battery.              *)
C36_LandedNeverDrains ==
    [][\A id \in Fleet :
         (drones[id].status = "landed" /\ drones'[id].status = "landed")
         => drones'[id].battery >= drones[id].battery]_vars

(* C37: in every state, a subscriber has been handed no more landing       *)
(* notices of a unit than RTH alerts of it: the alert of each trigger      *)
(* reaches the subscriber before the landing notice of its journey.        *)
C37_AlertBeforeLanding ==
    \A i \in 1..Len(callbacks) : \A id \in Fleet :
        delivered[i][id]["drone_landed"]
            <= delivered[i][id]["auto_rth"] + delivered[i][id]["emergency_rth"]

(* C38: every network event has a packet loss of 100 at most, a score of   *)
(* 20 at most, severity LOW, and frequency hopping was not enabled for it; *)
(* every rf_interference event has a level above 0.8, a score above 80,    *)
(* severity CRITICAL, and frequency hopping was enabled for it.            *)
C38_NetworkLowInterferenceCritical ==
    \A e \in 1..Len(jamming_events) :
        LET event == jamming_events[e]
        IN /\ event.type = "network"
                => /\ event.details.packet_loss <= 100 * Milli
                   /\ severity_score(event.type, event.details) <= 20 * Milli
                   /\ event.severity = "LOW"
                   /\ e \notin frequency_hopping
           /\ event.type = "rf_interference"
                => /\ event.details.interference_level > interference_threshold
                   /\ severity_score(event.type, event.details) > 80 * Milli
                   /\ event.severity = "CRITICAL"
                   /\ e \in frequency_hopping

(* a network event with every server unreachable, stored without hopping,  *)
(* and an interference event just above the threshold, with hopping        *)
C38_Witness ==
    \E e1, e2 \in 1..Len(jamming_events) :
        /\ jamming_events[e1].type = "network"
        /\ jamming_events[e1].details.packet_loss = 100 * Milli
        /\ e1 \in Stored /\ e1 \notin frequency_hopping
        /\ jamming_events[e2].type = "rf_interference"
        /\ jamming_events[e2].details.interference_level = interference_threshold + 1
        /\ e2 \in frequency_hopping

(* the flag is set for an event of that type: its countermeasures, its     *)
(* dispatch or its cooldown are not over                                   *)
LiveEventOf(type) ==
    /\ jamming_detected
    /\ jamming_events # <<>>
    /\ jamming_events[Len(jamming_events)].type = type

(* C39: while the flag is set for an event of the signal monitor, no step  *)
(* appends a sample to the signal history; while it is set for an event of *)
(* the network monitor, no step writes network_health; and while it is set *)
(* no step creates an event: the breaches of the other monitors are        *)
(* dropped.                                                                *)
C39_BreachingMonitorWaits ==
    [][/\ LiveEventOf("signal_drop")
            => signal_strength_history' = signal_strength_history
       /\ LiveEventOf("network") => network_health' = network_health
       /\ jamming_detected => jamming_events' = jamming_events]_vars

====
